---- MODULE Spec2Model ----
(***************************************************************************)
(* Model of crates/freeze/src/types/sources.rs: the Fetcher (a provider    *)
(* behind an optional tokio Semaphore and an optional governor rate        *)
(* limiter) and Source::get_txs_gas_used with its two paths.               *)
(*                                                                         *)
(* Option<T> is modelled as a sequence of length <= 1: None == <<>>,       *)
(* Some(x) == <<x>>.                                                       *)
(***************************************************************************)
EXTENDS Integers, Sequences, FiniteSets, TLC

\* ------------------------------------------------------------------ bounds

\* number of concurrently running caller tasks
NumTasks == 3
\* largest number of permits the semaphore is constructed with
MaxPermits == 2
\* burst size of the rate limiter's token bucket
Burst == 1
\* largest number of transactions in the block given to get_txs_gas_used
MaxTxs == 2
\* longest list of receipts the node answers get_block_receipts with
MaxReceipts == 2
\* most operation nodes (or diff entries) in one raw response
MaxNodes == 2
\* most block traces in one raw response
MaxTraces == 2
\* most transform calls made on one column store
MaxCalls == 2
\* number of concurrently running extract invocations
NumExtracts == 2
\* most events in the list given to select_event
MaxEvents == 2

\* a U256 is kept as [hi, lo], the number hi * 2^16 + lo with lo < 2^16;
\* it fits a u32 exactly when hi < 2^16
Limb == 65536

\* a usize is kept as its 16-bit limbs, the least significant first: four
\* of them on a 64-bit target
UsizeLimbs == 4

None == <<>>
Some(x) == <<x>>

\* task 0 is the caller of Source::get_txs_gas_used; tasks 1..NumTasks are
\* either independent callers of Fetcher operations or the tasks spawned by
\* get_txs_gas_used_per_tx (task i for block.transactions[i])
Main == 0
Clients == 1..NumTasks
Tasks == 0..NumTasks

\* ------------------------------------------------------------------- state

VARIABLES
    n_permits,      \* Option: the permit count the semaphore was built with
    semaphore,      \* Option<Semaphore>: [permits, closed, waiters]
    rate_limiter,   \* Option<RateLimiter>: the tokens left in the bucket
    pc,             \* task -> position inside the Fetcher operation
    permit,         \* task -> the value bound to _permit
    ret,            \* task -> how its operation ended
    resp,           \* task -> the receipts the provider answered with
    block,          \* the argument of get_txs_gas_used
    gpc,            \* position of get_txs_gas_used
    path,           \* which of its two paths is or was running
    spawned,        \* tasks spawned so far by get_txs_gas_used_per_tx
    awaited,        \* tasks awaited so far by get_txs_gas_used_per_tx
    gas_used,       \* the vector get_txs_gas_used_per_tx is filling
    result,         \* Option: what get_txs_gas_used returned
    overtaken,      \* history: a spawned task finished before an earlier one
    schemas,        \* the Schemas registry: Datatype -> Table
    dataset,        \* the dataset kind whose transform is running
    response,       \* the raw response given to transform
    columns,        \* the column store transform writes into
    work,           \* the position of transform's loops
    xpc,            \* position of transform
    first,          \* Option: the store an earlier run on a fresh store left
    calls,          \* transform calls made on the store so far
    job,            \* the extract (or helper) the callers are running
    ext,            \* task -> the state of its extract invocation
    events,         \* the events select_event lists
    input,          \* the line typed at its prompt
    overflow_checks,\* whether the build checks integer overflow
    selected        \* Option: what select_event returned

gate_vars == <<n_permits, semaphore, rate_limiter>>
task_vars == <<pc, permit, ret, resp>>
gas_vars == <<block, gpc, path, spawned, awaited, gas_used, result, overtaken>>
xf_vars == <<schemas, dataset, response, columns, work, xpc, first, calls>>
ext_vars == <<job, ext>>
sel_vars == <<events, input, overflow_checks, selected>>
coll_vars == <<xf_vars, ext_vars, sel_vars>>
fetch_vars == <<gate_vars, task_vars, gas_vars, ext_vars, sel_vars>>
vars == <<n_permits, semaphore, rate_limiter, pc, permit, ret, resp,
          block, gpc, path, spawned, awaited, gas_used, result, overtaken,
          schemas, dataset, response, columns, work, xpc, first, calls,
          job, ext, events, input, overflow_checks, selected>>

\* the public primitive operations of Fetcher
Ops ==
    {"get_logs", "trace_replay_block_transactions", "trace_replay_transaction",
     "get_transaction", "get_transaction_receipt", "get_block",
     "get_block_by_hash", "get_block_with_txs", "get_block_receipts",
     "trace_block", "trace_transaction", "call2", "call", "trace_call",
     "get_transaction_count", "get_balance", "get_code", "get_storage_at",
     "get_block_number"}

\* whether the operation's body starts with
\* `let _permit = self.permit_request().await;`
Gated(o) == o # "get_block_number"

\* ------------------------------------------------- tokio::sync::Semaphore

CanAcquireUnchecked(sem) == TRUE

\* acquire() completes at once when a permit is free; released permits are
\* handed to queued waiters first, so permits > 0 implies an empty queue
CanAcquire(sem) == sem.permits > 0

NextHolderLostWakeup(sem) == None

\* who a released permit goes to: the first queued waiter, if any
NextHolder(sem) ==
    IF sem.waiters # <<>> THEN Some(Head(sem.waiters)) ELSE None

\* the semaphore after one permit came back (SemaphorePermit::drop): the
\* permit goes to the first queued waiter, else back to the pool
SemAfterRelease(sem) ==
    IF NextHolder(sem) # None
    THEN [sem EXCEPT !.waiters = Tail(@)]
    ELSE [sem EXCEPT !.permits = @ + 1]

\* the _permit bindings after task t's permit came back
PermitsAfterRelease(p, sem, t) ==
    IF NextHolder(sem) # None
    THEN [p EXCEPT ![t] = "Unset", ![NextHolder(sem)[1]] = "Ok"]
    ELSE [p EXCEPT ![t] = "Unset"]

RemoveWaiter(ws, t) == SelectSeq(ws, LAMBDA w : w # t)

SemAfterDropLeak(t) == semaphore

\* _permit leaves scope (return, error or the future being dropped): a held
\* SemaphorePermit is released, None and Err(AcquireError) hold nothing
SemAfterDrop(t) ==
    IF permit[t] = "Ok"
    THEN Some(SemAfterRelease(semaphore[1]))
    ELSE semaphore

PermitsAfterDrop(t) ==
    IF permit[t] = "Ok"
    THEN PermitsAfterRelease(permit, semaphore[1], t)
    ELSE [permit EXCEPT ![t] = "Unset"]

\* ------------------------------------------------ Fetcher::permit_request

\* limiter.until_ready(), first poll: pass when there is no limiter or a
\* token is left, wait otherwise
UntilReadyPoll(t) ==
    IF rate_limiter = None
    THEN /\ pc' = [pc EXCEPT ![t] = "rpc"]
         /\ UNCHANGED rate_limiter
    ELSE IF rate_limiter[1] > 0
    THEN /\ pc' = [pc EXCEPT ![t] = "rpc"]
         /\ rate_limiter' = Some(rate_limiter[1] - 1)
    ELSE /\ pc' = [pc EXCEPT ![t] = "until_ready"]
         /\ UNCHANGED rate_limiter

\* permit_request up to its first suspension point: the permit first, the
\* rate limiter second
permit_request(t) ==
    IF semaphore = None
    THEN /\ permit' = [permit EXCEPT ![t] = "None"]
         /\ UNCHANGED semaphore
         /\ UntilReadyPoll(t)
    ELSE IF semaphore[1].closed
    THEN /\ permit' = [permit EXCEPT ![t] = "Err"]
         /\ UNCHANGED semaphore
         /\ UntilReadyPoll(t)
    ELSE IF CanAcquire(semaphore[1])
    THEN /\ permit' = [permit EXCEPT ![t] = "Ok"]
         /\ semaphore' = Some([semaphore[1] EXCEPT !.permits = @ - 1])
         /\ UntilReadyPoll(t)
    ELSE /\ semaphore' = Some([semaphore[1] EXCEPT !.waiters = Append(@, t)])
         /\ pc' = [pc EXCEPT ![t] = "acquire"]
         /\ UNCHANGED <<permit, rate_limiter>>

\* a Fetcher operation is called: a gated one runs permit_request, then the
\* provider call; get_block_number goes to the provider at once. The
\* operations differ in nothing else the gate can see, so the state keeps
\* the value bound to _permit ("Unset": no binding) and not the name
Call(t, o) ==
    /\ pc[t] = "idle"
    /\ IF Gated(o)
       THEN permit_request(t)
       ELSE /\ pc' = [pc EXCEPT ![t] = "rpc"]
            /\ UNCHANGED <<semaphore, rate_limiter, permit>>
    /\ UNCHANGED <<n_permits, ret, resp>>

\* a task waiting in acquire() is woken with its result (a permit handed
\* over by a release, or the error of a closed semaphore) and goes on to the
\* rate limiter
AcquireWake(t) ==
    /\ pc[t] = "acquire"
    /\ permit[t] \in {"Ok", "Err"}
    /\ UntilReadyPoll(t)
    /\ UNCHANGED <<n_permits, semaphore, permit, ret, resp>>

\* the rate limiter admits a waiting task
UntilReady(t) ==
    /\ pc[t] = "until_ready"
    /\ rate_limiter # None
    /\ rate_limiter[1] > 0
    /\ rate_limiter' = Some(rate_limiter[1] - 1)
    /\ pc' = [pc EXCEPT ![t] = "rpc"]
    /\ UNCHANGED <<n_permits, semaphore, permit, ret, resp>>

\* the token bucket refills with time
Tick ==
    /\ rate_limiter # None
    /\ rate_limiter[1] < Burst
    /\ rate_limiter' = Some(rate_limiter[1] + 1)
    /\ UNCHANGED <<n_permits, semaphore, pc, permit, ret, resp>>

\* the provider's round trip ends, with a value (val: the receipts in it)
\* or a ProviderError; the operation returns map_err(..) and _permit is
\* dropped
RpcReturn(t, ok, val) ==
    /\ pc[t] = "rpc"
    /\ pc' = [pc EXCEPT ![t] = "done"]
    /\ ret' = [ret EXCEPT ![t] = IF ok THEN "Ok" ELSE "ProviderError"]
    /\ resp' = [resp EXCEPT ![t] = IF ok THEN val ELSE <<>>]
    /\ semaphore' = SemAfterDrop(t)
    /\ permit' = PermitsAfterDrop(t)
    /\ UNCHANGED <<n_permits, rate_limiter>>

\* the task is cancelled (its future dropped) at a suspension point: a
\* queued acquire leaves the queue, a held permit is released
Cancel(t) ==
    /\ pc[t] \in {"acquire", "until_ready", "rpc"}
    /\ pc' = [pc EXCEPT ![t] = "done"]
    /\ ret' = [ret EXCEPT ![t] = "Cancelled"]
    /\ IF semaphore = None
       THEN /\ UNCHANGED semaphore
            /\ permit' = [permit EXCEPT ![t] = "Unset"]
       ELSE /\ semaphore' =
                Some([SemAfterDrop(t)[1] EXCEPT !.waiters = RemoveWaiter(@, t)])
            /\ permit' = PermitsAfterDrop(t)
    /\ UNCHANGED <<n_permits, rate_limiter, resp>>

\* Semaphore::close(): no new permit is given out and every queued waiter
\* gets Err(AcquireError)
Close ==
    /\ semaphore # None
    /\ ~semaphore[1].closed
    /\ semaphore' = Some([semaphore[1] EXCEPT !.closed = TRUE, !.waiters = <<>>])
    /\ permit' = [t \in Tasks |->
                    IF pc[t] = "acquire" /\ permit[t] = "Unset"
                    THEN "Err" ELSE permit[t]]
    /\ UNCHANGED <<n_permits, rate_limiter, pc, ret, resp>>

\* ------------------------------------------------------------ concurrent
\* callers of single Fetcher operations

TaskInit ==
    /\ pc = [t \in Tasks |-> "idle"]
    /\ permit = [t \in Tasks |-> "Unset"]
    /\ ret = [t \in Tasks |-> "none"]
    /\ resp = [t \in Tasks |-> <<>>]

\* a Fetcher with or without a semaphore, and with or without a rate
\* limiter, whose bucket earlier requests may have emptied
GateInit ==
    /\ n_permits \in {None} \cup {Some(n) : n \in 0..MaxPermits}
    /\ semaphore = IF n_permits = None THEN None
                   ELSE Some([permits |-> n_permits[1], closed |-> FALSE,
                              waiters |-> <<>>])
    /\ rate_limiter \in {None} \cup {Some(k) : k \in 0..Burst}

\* get_txs_gas_used has not been called
GasIdle ==
    /\ gpc = "start"
    /\ path = "none"
    /\ spawned = 0
    /\ awaited = 0
    /\ gas_used = <<>>
    /\ result = None
    /\ overtaken = FALSE

\* no transform is running
XfIdle ==
    /\ schemas = <<>>
    /\ dataset = "none"
    /\ response = <<>>
    /\ columns = <<>>
    /\ work = <<>>
    /\ xpc = "idle"
    /\ first = None
    /\ calls = 0

\* an extract invocation that has not started: no round trip issued, none
\* completed, no name decoded, nothing returned
ExtFresh == [trips |-> 0, log |-> <<>>, name |-> None, out |-> None]

\* no extract is running
ExtIdle ==
    /\ job = "none"
    /\ ext = [t \in Tasks |-> ExtFresh]

\* select_event is not in use
SelIdle ==
    /\ events = <<>>
    /\ input = <<>>
    /\ overflow_checks = FALSE
    /\ selected = None

CollIdle == XfIdle /\ ExtIdle /\ SelIdle

Init ==
    /\ GateInit
    /\ TaskInit
    /\ GasIdle
    /\ block = [number |-> None, transactions |-> <<>>]
    /\ CollIdle

ClientCall(t) == (\E o \in Ops : Call(t, o)) /\ UNCHANGED <<gas_vars, coll_vars>>

ClientAcquireWake(t) == AcquireWake(t) /\ UNCHANGED <<gas_vars, coll_vars>>

ClientUntilReady(t) == UntilReady(t) /\ UNCHANGED <<gas_vars, coll_vars>>

ClientReturn(t) == (\E ok \in BOOLEAN : RpcReturn(t, ok, <<>>)) /\ UNCHANGED <<gas_vars, coll_vars>>

ClientCancel(t) == Cancel(t) /\ UNCHANGED <<gas_vars, coll_vars>>

LimiterTick == Tick /\ UNCHANGED <<gas_vars, coll_vars>>

SemaphoreClose == Close /\ UNCHANGED <<gas_vars, coll_vars>>

Next ==
    \/ \E t \in Clients : ClientCall(t)
    \/ \E t \in Clients : ClientAcquireWake(t)
    \/ \E t \in Clients : ClientUntilReady(t)
    \/ \E t \in Clients : ClientReturn(t)
    \/ \E t \in Clients : ClientCancel(t)
    \/ LimiterTick
    \/ SemaphoreClose

Spec == Init /\ [][Next]_vars

\* the same callers when nobody cancels a task or closes the semaphore,
\* scheduled fairly, with round trips and limiter waits that end
NextLive ==
    \/ \E t \in Clients : ClientCall(t)
    \/ \E t \in Clients : ClientAcquireWake(t)
    \/ \E t \in Clients : ClientUntilReady(t)
    \/ \E t \in Clients : ClientReturn(t)
    \/ LimiterTick

LiveSpec ==
    /\ Init
    /\ [][NextLive]_vars
    /\ \A t \in Clients : WF_vars(ClientAcquireWake(t))
    /\ \A t \in Clients : WF_vars(ClientUntilReady(t))
    /\ \A t \in Clients : WF_vars(ClientReturn(t))
    /\ WF_vars(LimiterTick)

\* ------------------------------------------------ Source::get_txs_gas_used

NumTxs == Len(block.transactions)

\* the gas the chain recorded for the transaction with hash h
GasOf(h) == [hi |-> 0, lo |-> 21000 * h]

\* U256::as_u32: the value, or a panic (None) when it does not fit
as_u32(v) == IF v.hi < Limb THEN Some(v) ELSE None

\* the receipts a node may give for hash h: with or without gas_used. The
\* gas of one transaction is taken to fit a u32, the element type of the
\* result: beyond it as_u32 panics
ReceiptsFor(h) ==
    {[hash |-> h, gas_used |-> g] : g \in {None, Some(GasOf(h))}}

\* answers to get_block_receipts: any list of receipts of the block's
\* transactions, in any order and number up to MaxReceipts
BlockReceiptsResponses ==
    LET all == UNION {ReceiptsFor(block.transactions[i]) : i \in 1..NumTxs}
    IN  UNION {[1..n -> all] : n \in 0..MaxReceipts}

\* answers to get_transaction_receipt(h): Option<TransactionReceipt>
TxReceiptResponses(h) == {None} \cup {Some(r) : r \in ReceiptsFor(h)}

CollectGasPartial(receipts) ==
    LET has == {i \in DOMAIN receipts : receipts[i].gas_used = None}
        n == IF has = {} THEN Len(receipts)
             ELSE (CHOOSE i \in has : \A j \in has : i <= j) - 1
    IN  [tag |-> "Ok", value |-> [i \in 1..n |-> receipts[i].gas_used[1]]]

\* the loop of get_txs_gas_used_per_block over the receipts, in order: Err
\* at the first receipt without gas_used, a panic at the first value that
\* as_u32 refuses, else Ok(gas_used)
RECURSIVE CollectGas(_)
CollectGas(receipts) ==
    IF receipts = <<>> THEN [tag |-> "Ok", value |-> <<>>]
    ELSE LET receipt == Head(receipts)
         IN  IF receipt.gas_used = None THEN [tag |-> "Err", value |-> <<>>]
             ELSE IF as_u32(receipt.gas_used[1]) = None
             THEN [tag |-> "Panic", value |-> <<>>]
             ELSE LET rest == CollectGas(Tail(receipts))
                  IN  IF rest.tag = "Ok"
                      THEN [tag |-> "Ok",
                            value |-> <<as_u32(receipt.gas_used[1])[1]>> \o rest.value]
                      ELSE rest

\* what get_txs_gas_used_per_block returns on the provider's answer
PerBlockOutcome(ok, receipts) ==
    IF ok THEN CollectGas(receipts) ELSE [tag |-> "Err", value |-> <<>>]

NeedsFallbackAlways(outcome) == TRUE

\* the match in get_txs_gas_used: Err(_) runs get_txs_gas_used_per_tx
NeedsFallback(outcome) == outcome.tag = "Err"

GetTxsGasUsedIgnoresNumber ==
    /\ gpc = "start"
    /\ gpc' = "per_block"
    /\ path' = "per_block"
    /\ Call(Main, "get_block_receipts")
    /\ UNCHANGED <<block, spawned, awaited, gas_used, result, overtaken>>
    /\ UNCHANGED coll_vars

\* get_txs_gas_used is called and runs get_txs_gas_used_per_block up to its
\* first suspension: without a block number it fails at once and the second
\* path starts, else it calls get_block_receipts
GetTxsGasUsed ==
    /\ gpc = "start"
    /\ IF block.number = None
       THEN /\ gpc' = "per_tx"
            /\ path' = "per_tx"
            /\ UNCHANGED <<gate_vars, task_vars>>
       ELSE /\ gpc' = "per_block"
            /\ path' = "per_block"
            /\ Call(Main, "get_block_receipts")
    /\ UNCHANGED <<block, spawned, awaited, gas_used, result, overtaken>>
    /\ UNCHANGED coll_vars

MainUntilReady ==
    /\ UntilReady(Main)
    /\ UNCHANGED gas_vars
    /\ UNCHANGED coll_vars

\* get_block_receipts returns to get_txs_gas_used_per_block: `receipts` or
\* the error `?` passes on
GetBlockReceiptsReturn ==
    /\ gpc = "per_block"
    /\ \E ok \in BOOLEAN, val \in BlockReceiptsResponses : RpcReturn(Main, ok, val)
    /\ UNCHANGED gas_vars
    /\ UNCHANGED coll_vars

\* get_txs_gas_used_per_block reads the receipts (which are consumed) and
\* returns into the match of get_txs_gas_used
PerBlockReturn ==
    /\ gpc = "per_block"
    /\ pc[Main] = "done"
    /\ LET outcome == PerBlockOutcome(ret[Main] = "Ok", resp[Main])
       IN  IF outcome.tag = "Panic"
           THEN /\ gpc' = "panicked"
                /\ UNCHANGED <<path, result>>
           ELSE IF NeedsFallback(outcome)
           THEN /\ gpc' = "per_tx"
                /\ path' = "per_tx"
                /\ UNCHANGED result
           ELSE /\ gpc' = "returned"
                /\ result' = Some([ok |-> TRUE, value |-> outcome.value])
                /\ UNCHANGED path
    /\ resp' = [resp EXCEPT ![Main] = <<>>]
    /\ UNCHANGED <<gate_vars, pc, permit, ret, block, spawned, awaited,
                   gas_used, overtaken>>
    /\ UNCHANGED coll_vars

\* get_txs_gas_used_per_tx, first loop: one task is spawned for the next
\* transaction of the block
Spawn ==
    /\ gpc = "per_tx"
    /\ spawned < NumTxs
    /\ spawned' = spawned + 1
    /\ UNCHANGED <<gate_vars, task_vars, block, gpc, path, awaited, gas_used,
                   result, overtaken>>
    /\ UNCHANGED coll_vars

\* a spawned task starts: fetcher.get_transaction_receipt(tx_clone)
TaskStart(t) ==
    /\ t \in 1..spawned
    /\ Call(t, "get_transaction_receipt")
    /\ UNCHANGED gas_vars
    /\ UNCHANGED coll_vars

TaskAcquireWake(t) ==
    /\ AcquireWake(t)
    /\ UNCHANGED gas_vars
    /\ UNCHANGED coll_vars

TaskUntilReady(t) ==
    /\ UntilReady(t)
    /\ UNCHANGED gas_vars
    /\ UNCHANGED coll_vars

\* task t finishes while a task spawned before it is still running
Overtakes(t) == \E u \in 1..(t - 1) : pc[u] # "done"

TaskReturnWhileAwaited(t) ==
    /\ t \in 1..spawned
    /\ gpc = "per_tx"
    /\ \E ok \in BOOLEAN, val \in TxReceiptResponses(block.transactions[t]) :
        RpcReturn(t, ok, val)
    /\ overtaken' = (overtaken \/ Overtakes(t))
    /\ UNCHANGED <<block, gpc, path, spawned, awaited, gas_used, result>>
    /\ UNCHANGED coll_vars

\* the task's round trip ends and the task finishes
TaskReturn(t) ==
    /\ t \in 1..spawned
    /\ \E ok \in BOOLEAN, val \in TxReceiptResponses(block.transactions[t]) :
        RpcReturn(t, ok, val)
    /\ overtaken' = (overtaken \/ Overtakes(t))
    /\ UNCHANGED <<block, gpc, path, spawned, awaited, gas_used, result>>
    /\ UNCHANGED coll_vars

\* the task is aborted or panics at a suspension point: its JoinHandle
\* yields Err(JoinError)
TaskAbort(t) ==
    /\ t \in 1..spawned
    /\ Cancel(t)
    /\ overtaken' = (overtaken \/ Overtakes(t))
    /\ UNCHANGED <<block, gpc, path, spawned, awaited, gas_used, result>>
    /\ UNCHANGED coll_vars

TaskOutputDefaultGas(t) ==
    IF ret[t] = "Cancelled" THEN [join |-> "JoinError", res |-> "Err", gas |-> None]
    ELSE IF ret[t] = "ProviderError" THEN [join |-> "Ok", res |-> "Err", gas |-> None]
    ELSE IF resp[t] = None THEN [join |-> "Ok", res |-> "Ok", gas |-> Some(GasOf(0))]
    ELSE [join |-> "Ok", res |-> "Ok",
          gas |-> IF resp[t][1].gas_used = None THEN Some(GasOf(0))
                  ELSE resp[t][1].gas_used]

\* what task.await yields for a finished task: the closure's
\* Result<Option<U256>> inside the JoinHandle's Result
TaskOutput(t) ==
    IF ret[t] = "Cancelled" THEN [join |-> "JoinError", res |-> "Err", gas |-> None]
    ELSE IF ret[t] = "ProviderError" THEN [join |-> "Ok", res |-> "Err", gas |-> None]
    ELSE IF resp[t] = None THEN [join |-> "Ok", res |-> "Err", gas |-> None]
    ELSE [join |-> "Ok", res |-> "Ok", gas |-> resp[t][1].gas_used]

AwaitOrderReversed(n) == [i \in 1..n |-> n + 1 - i]

\* `for task in tasks`: the tasks are awaited in the order they were spawned
AwaitOrder(n) == [i \in 1..n |-> i]

\* get_txs_gas_used_per_tx, second loop: the next task is awaited;
\* Ok(Ok(Some(value))) is pushed, anything else returns the error
Await ==
    /\ gpc = "per_tx"
    /\ spawned = NumTxs
    /\ awaited < NumTxs
    /\ LET t == AwaitOrder(NumTxs)[awaited + 1]
           out == TaskOutput(t)
       IN  /\ pc[t] = "done"
           /\ IF out.join = "Ok" /\ out.res = "Ok" /\ out.gas # None
              THEN IF as_u32(out.gas[1]) = None
                   THEN /\ gpc' = "panicked"
                        /\ UNCHANGED <<awaited, gas_used, result>>
                   ELSE /\ gas_used' = Append(gas_used, as_u32(out.gas[1])[1])
                        /\ awaited' = awaited + 1
                        /\ UNCHANGED <<gpc, result>>
              ELSE /\ gpc' = "returned"
                   /\ result' = Some([ok |-> FALSE, value |-> <<>>])
                   /\ UNCHANGED <<awaited, gas_used>>
    /\ UNCHANGED <<gate_vars, task_vars, block, path, spawned, overtaken>>
    /\ UNCHANGED coll_vars

\* get_txs_gas_used_per_tx returns Ok(gas_used) after the last task
PerTxReturn ==
    /\ gpc = "per_tx"
    /\ spawned = NumTxs
    /\ awaited = NumTxs
    /\ gpc' = "returned"
    /\ result' = Some([ok |-> TRUE, value |-> gas_used])
    /\ UNCHANGED <<gate_vars, task_vars, block, path, spawned, awaited,
                   gas_used, overtaken>>
    /\ UNCHANGED coll_vars

\* blocks of up to MaxTxs transactions, transaction i having hash i, with
\* or without a block number
Blocks ==
    {[number |-> n, transactions |-> [i \in 1..k |-> i]] :
        n \in {None, Some(1)}, k \in 0..MaxTxs}

\* get_txs_gas_used is the Fetcher's only caller here, so its
\* get_block_receipts is never handed a permit by a release: it gets one at
\* once, or waits for ever on a semaphore of no permits
GasInit ==
    /\ GateInit
    /\ TaskInit
    /\ GasIdle
    /\ block \in Blocks
    /\ CollIdle

GasNext ==
    \/ GetTxsGasUsed
    \/ MainUntilReady
    \/ GetBlockReceiptsReturn
    \/ PerBlockReturn
    \/ Spawn
    \/ \E t \in Clients : TaskStart(t)
    \/ \E t \in Clients : TaskAcquireWake(t)
    \/ \E t \in Clients : TaskUntilReady(t)
    \/ \E t \in Clients : TaskReturn(t)
    \/ \E t \in Clients : TaskAbort(t)
    \/ Await
    \/ PerTxReturn
    \/ LimiterTick

GasSpec == GasInit /\ [][GasNext]_vars

\* the same call on a runtime that aborts no task, schedules the tasks
\* fairly and whose round trips and limiter waits end. A spawned task is
\* detached when its JoinHandle is dropped: it runs on after
\* get_txs_gas_used_per_tx has returned
GasLiveNext ==
    \/ GetTxsGasUsed
    \/ MainUntilReady
    \/ GetBlockReceiptsReturn
    \/ PerBlockReturn
    \/ Spawn
    \/ \E t \in Clients : TaskStart(t)
    \/ \E t \in Clients : TaskAcquireWake(t)
    \/ \E t \in Clients : TaskUntilReady(t)
    \/ \E t \in Clients : TaskReturn(t)
    \/ Await
    \/ PerTxReturn
    \/ LimiterTick

GasLiveSpec ==
    /\ GasInit
    /\ [][GasLiveNext]_vars
    /\ WF_vars(GetTxsGasUsed)
    /\ WF_vars(MainUntilReady)
    /\ WF_vars(GetBlockReceiptsReturn)
    /\ WF_vars(PerBlockReturn)
    /\ WF_vars(Spawn)
    /\ \A t \in Clients : WF_vars(TaskStart(t))
    /\ \A t \in Clients : WF_vars(TaskAcquireWake(t))
    /\ \A t \in Clients : WF_vars(TaskUntilReady(t))
    /\ \A t \in Clients : WF_vars(TaskReturn(t))
    /\ WF_vars(Await)
    /\ WF_vars(PerTxReturn)
    /\ WF_vars(LimiterTick)

\* ------------------------------------------------------------------ claims

HeldPermits == {t \in Tasks : permit[t] = "Ok"}
InFlight == {t \in Tasks : pc[t] = "rpc"}
Waiting == {t \in Tasks : pc[t] = "acquire" /\ permit[t] = "Unset"}

\* C1: with a semaphore of N permits, the tasks that hold a permit obtained
\* by permit_request and have not finished their round trip are never more
\* than N
C1_AtMostNHolders ==
    n_permits # None =>
        /\ Cardinality(InFlight \cap HeldPermits) <= n_permits[1]
        /\ Cardinality(HeldPermits) <= n_permits[1]

\* all N >= 1 permits are out on round trips while a further task waits
C1_Witness ==
    /\ n_permits # None
    /\ n_permits[1] >= 1
    /\ Cardinality(InFlight \cap HeldPermits) = n_permits[1]
    /\ Waiting # {}

\* C2: with N >= 1 permits, fair scheduling and terminating round trips and
\* limiter waits, every task waiting in acquire gets a permit and every
\* task that called an operation completes it
C2_AllComplete ==
    (n_permits # Some(0)) =>
        /\ \A t \in Clients : (pc[t] = "acquire") ~> (permit[t] = "Ok")
        /\ \A t \in Clients :
             (pc[t] # "idle") ~> (pc[t] = "done" /\ ret[t] \in {"Ok", "ProviderError"})

\* a task that had to queue in acquire has been handed a permit
C2_Witness ==
    \E t \in Clients :
        /\ pc[t] = "acquire"
        /\ permit[t] = "Ok"
        /\ \E u \in Clients : u # t /\ pc[u] = "done"

\* C3: permits are conserved on every exit path: available + held = N in
\* every state, and all N are available when no operation is in progress
C3_PermitsConserved ==
    semaphore # None =>
        /\ semaphore[1].permits + Cardinality(HeldPermits) = n_permits[1]
        /\ (\A t \in Tasks : pc[t] \in {"idle", "done"}) =>
               semaphore[1].permits = n_permits[1]

\* operations ended by success, by error and by cancellation, and all the
\* permits are back
C3_Witness ==
    /\ semaphore # None
    /\ n_permits[1] >= 1
    /\ \A t \in Clients : pc[t] = "done"
    /\ \E t \in Clients : ret[t] = "Cancelled"
    /\ \E t \in Clients : ret[t] \in {"Ok", "ProviderError"}
    /\ semaphore[1].permits = n_permits[1]

\* C4: no round trip is in flight whose operation did not pass through
\* permit_request (the claim as stated, for all nineteen operations)
C4_EveryOpGated ==
    \A t \in Tasks : pc[t] = "rpc" => permit[t] # "Unset"

\* C5: an operation whose acquire failed on a closed semaphore does not go
\* on to the rate limiter or the round trip (the claim as stated)
C5_ClosedNeverProceeds ==
    \A t \in Tasks : pc[t] \in {"until_ready", "rpc"} => permit[t] # "Err"

\* the block's gas used, in block transaction order
BlockGas == [i \in 1..NumTxs |-> GasOf(block.transactions[i])]

\* get_txs_gas_used_per_block holds the provider's answer and has not yet
\* read it
BatchInHand == gpc = "per_block" /\ pc[Main] = "done"

BatchComplete ==
    /\ BatchInHand
    /\ ret[Main] = "Ok"
    /\ \A i \in DOMAIN resp[Main] : resp[Main][i].gas_used # None

BatchFailedOrLacking ==
    /\ BatchInHand
    /\ \/ ret[Main] = "ProviderError"
       \/ \E i \in DOMAIN resp[Main] : resp[Main][i].gas_used = None

PerTxUntouched ==
    /\ path # "per_tx"
    /\ spawned = 0
    /\ \A t \in Clients : pc[t] = "idle" /\ ret[t] = "none"

\* the node's answer to task i's get_transaction_receipt carries gas_used
ReceiptHasGas(i) ==
    /\ ret[i] = "Ok"
    /\ resp[i] # None
    /\ resp[i][1].gas_used # None

\* C6: when get_block_receipts succeeds and every receipt carries gas_used,
\* the next step of get_txs_gas_used returns that result, and no task is
\* spawned and no get_transaction_receipt call is issued in that invocation
C6_NoFallbackOnCompleteBatch ==
    /\ [][(BatchComplete /\ gpc' # gpc) =>
            /\ gpc' = "returned"
            /\ result' # None /\ result'[1].ok
            /\ PerTxUntouched']_vars
    /\ []((gpc = "returned" /\ path = "per_block") => PerTxUntouched)

\* the batched path answered for a block with transactions
C6_Witness ==
    /\ gpc = "returned"
    /\ path = "per_block"
    /\ NumTxs >= 1
    /\ Len(result[1].value) >= 1

\* C7: when get_block_receipts fails or a receipt lacks gas_used, the next
\* step of get_txs_gas_used starts the second path with an empty vector, and
\* a final Ok result is made of the per-transaction receipts alone, one per
\* transaction
C7_BatchDiscarded ==
    /\ [][(BatchFailedOrLacking /\ gpc' # gpc) =>
            /\ gpc' = "per_tx"
            /\ path' = "per_tx"
            /\ gas_used' = <<>>
            /\ result' = None]_vars
    /\ []((gpc = "returned" /\ path = "per_tx" /\ result[1].ok) =>
            result[1].value =
                [i \in 1..NumTxs |-> as_u32(resp[i][1].gas_used[1])[1]])

\* a batch that arrived but lacked a gas_used was followed by a successful
\* second path
C7_Witness ==
    /\ gpc = "returned"
    /\ path = "per_tx"
    /\ block.number # None
    /\ ret[Main] = "Ok"
    /\ result[1].ok
    /\ NumTxs >= 2

\* C8: an Ok result has one entry per transaction of the block, entry i
\* being the gas used by transaction i, whichever path produced it (the
\* claim as stated)
C8_ResultMatchesBlock ==
    (gpc = "returned" /\ result[1].ok) => result[1].value = BlockGas

\* C9: an Ok result of the second path is the block's gas used in block
\* transaction order, in whatever order the tasks finished
C9_PerTxInBlockOrder ==
    (gpc = "returned" /\ path = "per_tx" /\ result[1].ok) =>
        /\ Len(result[1].value) = NumTxs
        /\ result[1].value = BlockGas

\* the second path succeeded although a later task finished before an
\* earlier one
C9_Witness ==
    /\ gpc = "returned"
    /\ path = "per_tx"
    /\ result[1].ok
    /\ NumTxs >= 2
    /\ overtaken

\* C10: the second path returns Ok only with all T receipts present with
\* gas_used, then with T entries; a failed call, an absent receipt, a
\* receipt without gas_used or a failed task makes it return the error,
\* which carries no vector
C10_AllOrError ==
    (gpc = "returned" /\ path = "per_tx") =>
        /\ result[1].ok =>
              /\ \A i \in 1..NumTxs : ReceiptHasGas(i)
              /\ Len(result[1].value) = NumTxs
        /\ (\E i \in 1..NumTxs : pc[i] = "done" /\ ~ReceiptHasGas(i)) =>
              ~result[1].ok
        /\ ~result[1].ok => result[1].value = <<>>

\* the second path had collected a value when a later task's failure made
\* it return the error
C10_Witness ==
    /\ gpc = "returned"
    /\ path = "per_tx"
    /\ ~result[1].ok
    /\ awaited >= 1
    /\ gas_used # <<>>
    /\ \E i \in 1..NumTxs : pc[i] = "done" /\ ~ReceiptHasGas(i)

\* ------------------------------------------------ schemas and column stores

\* the schema's membership query, and the store! macro: the value is pushed
\* onto the named column when the schema has that column, else dropped
has_column(schema, name) == name \in schema

store(schema, cols, name, value) ==
    IF has_column(schema, name)
    THEN [cols EXCEPT ![name] = Append(@, value)]
    ELSE cols

\* a row's store! calls, in their order
RECURSIVE StoreAll(_, _, _)
StoreAll(schema, cols, writes) ==
    IF writes = <<>> THEN cols
    ELSE StoreAll(schema, store(schema, cols, Head(writes)[1], Head(writes)[2]),
                  Tail(writes))

\* the columns of the three stores (n_rows apart)
VmTraceColumnNames ==
    {"block_number", "transaction_hash", "transaction_position", "pc", "cost",
     "used", "push", "mem_off", "mem_data", "storage_key", "storage_val", "op"}

CodeDiffsColumnNames ==
    {"block_number", "transaction_index", "transaction_hash", "address",
     "from_value", "to_value", "chain_id"}

Erc721MetadataColumnNames == {"block_number", "erc721", "name", "symbol"}

\* the columns of the balance diffs dataset, the sibling of code diffs
BalanceDiffsColumnNames ==
    {"block_number", "transaction_index", "transaction_hash", "address",
     "from_value", "to_value", "chain_id"}

Datasets == {"VmTraces", "CodeDiffs", "Erc721Metadata"}
Datatypes == Datasets \cup {"BalanceDiffs"}

\* the columns a dataset kind has
ColumnNames(d) ==
    CASE d = "VmTraces" -> VmTraceColumnNames
      [] d = "CodeDiffs" -> CodeDiffsColumnNames
      [] d = "Erc721Metadata" -> Erc721MetadataColumnNames
      [] d = "BalanceDiffs" -> BalanceDiffsColumnNames

\* a schema that leaves some columns of the dataset out
PartialTable(d) ==
    CASE d = "VmTraces" -> {"transaction_hash", "pc", "used", "mem_off",
                            "mem_data", "storage_key", "storage_val", "op"}
      [] d = "CodeDiffs" -> {"block_number", "address", "from_value", "to_value"}
      [] d = "Erc721Metadata" -> {"erc721", "name"}
      [] d = "BalanceDiffs" -> {"block_number", "address"}

\* the tables the schema compiler may register for a dataset kind
Tables(d) == {ColumnNames(d), PartialTable(d)}

\* a Default store of the dataset kind: no rows, every column empty
FreshColumns(d) == [n_rows |-> 0, cols |-> [c \in ColumnNames(d) |-> <<>>]]

\* the key each transform looks its schema up under
SchemaKey(d) ==
    CASE d = "VmTraces" -> "BalanceDiffs"
      [] d = "CodeDiffs" -> "CodeDiffs"
      [] d = "Erc721Metadata" -> "Erc721Metadata"

\* the registries a transform of kind d may be given: its own kind and the
\* balance diffs kind are registered or not, every other kind is not. A
\* registry is a HashMap<Datatype, Table> built by the caller and nothing
\* ties the names in a table to the key it is registered under: the table
\* under the balance diffs key names the balance diff columns or, for a
\* VM trace collection, the VM trace columns
Registries(d) ==
    {[k \in Datatypes |->
        IF k = d THEN own ELSE IF k = "BalanceDiffs" THEN bal ELSE None] :
     own \in {None} \cup {Some(t) : t \in Tables(d)},
     bal \in {None, Some(ColumnNames("BalanceDiffs"))} \cup
             (IF d = "VmTraces" THEN {Some(ColumnNames("VmTraces"))} ELSE {})}

\* ------------------------------------------------------------- VM traces

\* the operations a trace is made of: a VMOperation without its sub-trace.
\* ex is the VMExecutedOperation (absent when the operation never ran), with
\* its optional memory write and its optional storage write
Opcodes ==
    {[pc |-> 0, cost |-> 3, op |-> [known |-> TRUE, name |-> "PUSH1"],
      ex |-> Some([used |-> 97, push |-> <<96>>, mem |-> None, store |-> None])],
     [pc |-> 2, cost |-> 6, op |-> [known |-> TRUE, name |-> "MSTORE"],
      ex |-> Some([used |-> 91, push |-> <<>>,
                   mem |-> Some([off |-> 64, data |-> <<96>>]), store |-> None])],
     [pc |-> 4, cost |-> 20, op |-> [known |-> TRUE, name |-> "SSTORE"],
      ex |-> Some([used |-> 71, push |-> <<>>, mem |-> None,
                   store |-> Some([key |-> <<1>>, val |-> <<2>>])])],
     [pc |-> 6, cost |-> 40, op |-> [known |-> TRUE, name |-> "CALL"],
      ex |-> Some([used |-> 31, push |-> <<1>>,
                   mem |-> Some([off |-> 0, data |-> <<7>>]),
                   store |-> Some([key |-> <<3>>, val |-> <<4>>])])],
     [pc |-> 8, cost |-> 0, op |-> [known |-> FALSE, name |-> "0xfe"],
      ex |-> None]}

WithSub(opcode, sub) ==
    [pc |-> opcode.pc, cost |-> opcode.cost, op |-> opcode.op,
     ex |-> opcode.ex, sub |-> sub]

\* the lists of operations with k nodes in all, sub-traces included, and
\* the operations whose own tree has m nodes
RECURSIVE OpsOf(_)
RECURSIVE OperationsOf(_)
OperationsOf(m) ==
    IF m = 1 THEN {WithSub(o, None) : o \in Opcodes}
    ELSE {WithSub(o, Some([ops |-> f])) : o \in Opcodes, f \in OpsOf(m - 1)}

OpsOf(k) ==
    IF k = 0 THEN {<<>>}
    ELSE UNION {{<<o>> \o f : o \in OperationsOf(m), f \in OpsOf(k - m)} :
                m \in 1..k}

\* the BlockTraces of a VmTrace replay with k nodes: without a VM trace, or
\* with one
VmBlockTraces(k) ==
    IF k = 0
    THEN {[vm_trace |-> None, state_diff |-> None],
          [vm_trace |-> Some([ops |-> <<>>]), state_diff |-> None]}
    ELSE {[vm_trace |-> Some([ops |-> f]), state_diff |-> None] : f \in OpsOf(k)}

\* lists of at most len block traces with at most n nodes in all
RECURSIVE VmTraceLists(_, _)
VmTraceLists(len, n) ==
    IF len = 0 THEN {<<>>}
    ELSE {<<>>} \cup
         UNION {{<<bt>> \o r : bt \in VmBlockTraces(k),
                               r \in VmTraceLists(len - 1, n - k)} :
                k \in 0..n}

\* a call and what follows it: an operation with a sub-trace of one
\* operation, then its next sibling
CallThenNext ==
    {<<WithSub(o, Some([ops |-> <<WithSub(c, None)>>])), WithSub(s, None)>> :
        o \in Opcodes, c \in Opcodes, s \in Opcodes}

\* what trace_block_vm_traces (Some(block), None, traces) and
\* trace_transaction_vm_traces (None, Some(hash), vec![trace]) answer
VmTraceResponses ==
    {[number |-> Some(1), tx |-> None, traces |-> ts] :
        ts \in VmTraceLists(MaxTraces, MaxNodes)}
    \cup
    {[number |-> None, tx |-> Some(<<171>>), traces |-> ts] :
        ts \in {l \in VmTraceLists(1, MaxNodes) : Len(l) = 1}}
    \cup
    {[number |-> None, tx |-> Some(<<171>>),
      traces |-> <<[vm_trace |-> Some([ops |-> f]), state_diff |-> None]>>] :
        f \in CallThenNext}

OpcodeRowNoExSkipsUsed(opcode, number, tx_hash, tx_pos) ==
    <<<<"block_number", number>>,
      <<"transaction_hash", tx_hash>>,
      <<"transaction_position", tx_pos>>,
      <<"pc", opcode.pc>>,
      <<"cost", opcode.cost>>>>
    \o (IF opcode.ex # None
        THEN LET ex == opcode.ex[1]
             IN  <<<<"used", Some(ex.used)>>, <<"push", Some(ex.push)>>>>
                 \o (IF ex.mem # None
                     THEN <<<<"mem_off", Some(ex.mem[1].off)>>,
                            <<"mem_data", Some(ex.mem[1].data)>>>>
                     ELSE <<<<"mem_off", None>>, <<"mem_data", None>>>>)
                 \o (IF ex.store # None
                     THEN <<<<"storage_key", Some(ex.store[1].key)>>,
                            <<"storage_val", Some(ex.store[1].val)>>>>
                     ELSE <<<<"storage_key", None>>, <<"storage_val", None>>>>)
        ELSE <<<<"push", None>>, <<"mem_off", None>>,
               <<"mem_data", None>>, <<"storage_key", None>>,
               <<"storage_val", None>>>>)

OpcodeRowDefaultOffset(opcode, number, tx_hash, tx_pos) ==
    <<<<"block_number", number>>,
      <<"transaction_hash", tx_hash>>,
      <<"transaction_position", tx_pos>>,
      <<"pc", opcode.pc>>,
      <<"cost", opcode.cost>>>>
    \o (IF opcode.ex # None
        THEN LET ex == opcode.ex[1]
             IN  <<<<"used", Some(ex.used)>>, <<"push", Some(ex.push)>>>>
                 \o (IF ex.mem # None
                     THEN <<<<"mem_off", Some(ex.mem[1].off)>>,
                            <<"mem_data", Some(ex.mem[1].data)>>>>
                     ELSE <<<<"mem_off", Some(0)>>, <<"mem_data", None>>>>)
                 \o (IF ex.store # None
                     THEN <<<<"storage_key", Some(ex.store[1].key)>>,
                            <<"storage_val", Some(ex.store[1].val)>>>>
                     ELSE <<<<"storage_key", None>>, <<"storage_val", None>>>>)
        ELSE <<<<"used", None>>, <<"push", None>>, <<"mem_off", None>>,
               <<"mem_data", None>>, <<"storage_key", None>>,
               <<"storage_val", None>>>>)

\* the row add_ops emits for one operation: its store! calls in order
OpcodeRow(opcode, number, tx_hash, tx_pos) ==
    <<<<"block_number", number>>,
      <<"transaction_hash", tx_hash>>,
      <<"transaction_position", tx_pos>>,
      <<"pc", opcode.pc>>,
      <<"cost", opcode.cost>>>>
    \o (IF opcode.ex # None
        THEN LET ex == opcode.ex[1]
             IN  <<<<"used", Some(ex.used)>>, <<"push", Some(ex.push)>>>>
                 \o (IF ex.mem # None
                     THEN <<<<"mem_off", Some(ex.mem[1].off)>>,
                            <<"mem_data", Some(ex.mem[1].data)>>>>
                     ELSE <<<<"mem_off", None>>, <<"mem_data", None>>>>)
                 \o (IF ex.store # None
                     THEN <<<<"storage_key", Some(ex.store[1].key)>>,
                            <<"storage_val", Some(ex.store[1].val)>>>>
                     ELSE <<<<"storage_key", None>>, <<"storage_val", None>>>>)
        ELSE <<<<"used", None>>, <<"push", None>>, <<"mem_off", None>>,
               <<"mem_data", None>>, <<"storage_key", None>>,
               <<"storage_val", None>>>>)

\* the op column is decoded only when the schema asks for it
OpcodeOp(schema, opcode) ==
    IF has_column(schema, "op") THEN <<<<"op", opcode.op.name>>>> ELSE <<>>

\* ------------------------------------------------------------ code diffs

\* H256::zero().as_bytes().to_vec(): thirty-two zero bytes
ZeroBytes == [i \in 1..32 |-> 0]

Addresses == {16, 32}

\* Diff<Bytes>: Same, Born(value), Died(value), Changed { from, to }
Diffs ==
    {[tag |-> "Same", from |-> <<>>, to |-> <<>>],
     [tag |-> "Born", from |-> <<>>, to |-> <<2>>],
     [tag |-> "Died", from |-> <<1>>, to |-> <<>>],
     [tag |-> "Changed", from |-> <<1>>, to |-> <<2>>]}

\* StateDiff: a BTreeMap from address to the account's diff (its code diff)
StateDiffs(k) ==
    UNION {[as -> Diffs] : as \in {x \in SUBSET Addresses : Cardinality(x) = k}}

\* the BlockTraces of a StateDiff replay with k diff entries
DiffBlockTraces(k) ==
    IF k = 0
    THEN {[vm_trace |-> None, state_diff |-> None],
          [vm_trace |-> None, state_diff |-> Some(<<>>)]}
    ELSE {[vm_trace |-> None, state_diff |-> Some(d)] : d \in StateDiffs(k)}

RECURSIVE DiffTraceLists(_, _)
DiffTraceLists(len, n) ==
    IF len = 0 THEN {<<>>}
    ELSE {<<>>} \cup
         UNION {{<<bt>> \o r : bt \in DiffBlockTraces(k),
                               r \in DiffTraceLists(len - 1, n - k)} :
                k \in 0..n}

\* what trace_block_state_diffs and trace_transaction_state_diffs answer
CodeDiffResponses ==
    {[number |-> Some(1), tx |-> None, traces |-> ts] :
        ts \in DiffTraceLists(MaxTraces, MaxNodes)}
    \cup
    {[number |-> None, tx |-> Some(<<171>>), traces |-> ts] :
        ts \in {l \in DiffTraceLists(1, MaxNodes) : Len(l) = 1}}

\* the match of process_code_diff: the (from, to) pair of a diff
FromToBornSwapped(diff) ==
    CASE diff.tag = "Same" -> <<ZeroBytes, ZeroBytes>>
      [] diff.tag = "Born" -> <<diff.to, ZeroBytes>>
      [] diff.tag = "Died" -> <<diff.from, ZeroBytes>>
      [] diff.tag = "Changed" -> <<diff.from, diff.to>>

FromTo(diff) ==
    CASE diff.tag = "Same" -> <<ZeroBytes, ZeroBytes>>
      [] diff.tag = "Born" -> <<ZeroBytes, diff.to>>
      [] diff.tag = "Died" -> <<diff.from, ZeroBytes>>
      [] diff.tag = "Changed" -> <<diff.from, diff.to>>

CodeDiffRowFirstIndex(addr, diff, block_number, transaction_hash, transaction_index) ==
    <<<<"block_number", block_number>>,
      <<"transaction_index", Some(0)>>,
      <<"transaction_hash", transaction_hash>>,
      <<"address", addr>>,
      <<"from_value", FromTo(diff)[1]>>,
      <<"to_value", FromTo(diff)[2]>>>>

\* the row process_code_diff emits: its store! calls in order
CodeDiffRow(addr, diff, block_number, transaction_hash, transaction_index) ==
    <<<<"block_number", block_number>>,
      <<"transaction_index", Some(transaction_index)>>,
      <<"transaction_hash", transaction_hash>>,
      <<"address", addr>>,
      <<"from_value", FromTo(diff)[1]>>,
      <<"to_value", FromTo(diff)[2]>>>>

IterAnyOrder(state_diffs) == DOMAIN state_diffs

\* state_diffs.iter(): a BTreeMap is walked in the order of its keys, so
\* the entry that comes next is the one with the least address
Iter(state_diffs) ==
    {a \in DOMAIN state_diffs : \A b \in DOMAIN state_diffs : a <= b}

\* the map without the entry for address a
Without(state_diffs, a) == [b \in DOMAIN state_diffs \ {a} |-> state_diffs[b]]

\* --------------------------------------------------------- ERC-721 metadata

\* BlockAddressNameSymbol: what Erc721Metadata::extract hands to transform
Erc721Responses ==
    {[block |-> 1, address |-> <<16>>, name |-> n, symbol |-> y] :
        n \in {None, Some("Name")}, y \in {None, Some("SYM")}}

\* the row Erc721Metadata::transform emits
Erc721Row(r) ==
    <<<<"block_number", r.block>>, <<"erc721", r.address>>,
      <<"name", r.name>>, <<"symbol", r.symbol>>>>

\* the raw responses of a dataset kind
Responses(d) ==
    CASE d = "VmTraces" -> VmTraceResponses
      [] d = "CodeDiffs" -> CodeDiffResponses
      [] d = "Erc721Metadata" -> Erc721Responses

\* --------------------------------------------------------------- transform

\* the loops of a transform in progress: the block traces not yet reached,
\* the index `enumerate` gives the next of them, the index of the one being
\* processed, the operations left in each active add_ops call (innermost
\* first) and the diff entries left in the state diff being walked
StartWork(traces) ==
    [todo |-> traces, index |-> 0, pos |-> 0, stack |-> <<>>, diffs |-> <<>>]

\* the loops move on to the next thing that emits a row: a finished add_ops
\* call returns to its caller, a finished block trace gives way to the next,
\* a block trace without a VM trace (without a state diff) is skipped
RECURSIVE Advance(_, _)
Advance(d, w) ==
    IF w.stack # <<>>
    THEN IF Head(w.stack) = <<>>
         THEN Advance(d, [w EXCEPT !.stack = Tail(@)])
         ELSE w
    ELSE IF DOMAIN w.diffs # {} THEN w
    ELSE IF w.todo = <<>> THEN w
    ELSE LET bt == Head(w.todo)
             nxt == [w EXCEPT !.todo = Tail(@), !.index = @ + 1,
                              !.pos = w.index]
         IN  IF d = "VmTraces"
             THEN Advance(d, [nxt EXCEPT !.stack =
                     IF bt.vm_trace # None THEN <<bt.vm_trace[1].ops>> ELSE <<>>])
             ELSE Advance(d, [nxt EXCEPT !.diffs =
                     IF bt.state_diff # None THEN bt.state_diff[1] ELSE <<>>])

Finished(w) == w.todo = <<>> /\ w.stack = <<>> /\ DOMAIN w.diffs = {}

\* the table the running transform looked up
Schema == schemas[SchemaKey(dataset)][1]

TransformCountsBeforeLookup ==
    /\ xpc = "idle"
    /\ calls' = calls + 1
    /\ IF schemas[SchemaKey(dataset)] = None
       THEN /\ xpc' = IF dataset = "CodeDiffs" THEN "err" ELSE "panicked"
            /\ columns' = [columns EXCEPT !.n_rows = @ + 1]
            /\ UNCHANGED work
       ELSE /\ work' = IF dataset = "Erc721Metadata"
                       THEN StartWork(<<response>>)
                       ELSE Advance(dataset, StartWork(response.traces))
            /\ xpc' = IF Finished(work') THEN "done" ELSE "running"
            /\ UNCHANGED columns
    /\ UNCHANGED <<schemas, dataset, response, first>>
    /\ UNCHANGED fetch_vars

\* transform is called: the schema is looked up (expect panics and
\* ok_or(..)? returns the error when it is missing) and the loops start
Transform ==
    /\ xpc = "idle"
    /\ calls' = calls + 1
    /\ IF schemas[SchemaKey(dataset)] = None
       THEN /\ xpc' = IF dataset = "CodeDiffs" THEN "err" ELSE "panicked"
            /\ UNCHANGED work
       ELSE /\ work' = IF dataset = "Erc721Metadata"
                       THEN StartWork(<<response>>)
                       ELSE Advance(dataset, StartWork(response.traces))
            /\ xpc' = IF Finished(work') THEN "done" ELSE "running"
    /\ UNCHANGED <<schemas, dataset, response, columns, first>>
    /\ UNCHANGED fetch_vars

AddOpsSiblingsFirst ==
    /\ xpc = "running"
    /\ dataset = "VmTraces"
    /\ LET opcode == Head(Head(work.stack))
           row == OpcodeRow(opcode, response.number, response.tx, work.pos)
                  \o OpcodeOp(Schema, opcode)
           sub == IF opcode.sub # None THEN <<opcode.sub[1].ops>> ELSE <<>>
       IN  /\ columns' = [n_rows |-> columns.n_rows + 1,
                          cols |-> StoreAll(Schema, columns.cols, row)]
           /\ work' = Advance(dataset,
                        [work EXCEPT !.stack =
                            <<Tail(Head(work.stack))>> \o sub \o Tail(work.stack)])
    /\ xpc' = IF Finished(work') THEN "done" ELSE "running"
    /\ UNCHANGED <<schemas, dataset, response, first, calls>>
    /\ UNCHANGED fetch_vars

\* one iteration of the loop of add_ops: n_rows += 1, the row is stored and
\* add_ops calls itself on the operation's sub-trace before it goes on
AddOps ==
    /\ xpc = "running"
    /\ dataset = "VmTraces"
    /\ LET opcode == Head(Head(work.stack))
           row == OpcodeRow(opcode, response.number, response.tx, work.pos)
                  \o OpcodeOp(Schema, opcode)
           sub == IF opcode.sub # None THEN <<opcode.sub[1].ops>> ELSE <<>>
       IN  /\ columns' = [n_rows |-> columns.n_rows + 1,
                          cols |-> StoreAll(Schema, columns.cols, row)]
           /\ work' = Advance(dataset,
                        [work EXCEPT !.stack =
                            sub \o <<Tail(Head(work.stack))>> \o Tail(work.stack)])
    /\ xpc' = IF Finished(work') THEN "done" ELSE "running"
    /\ UNCHANGED <<schemas, dataset, response, first, calls>>
    /\ UNCHANGED fetch_vars

\* process_code_diff on the next entry of the state diff
ProcessCodeDiff ==
    /\ xpc = "running"
    /\ dataset = "CodeDiffs"
    /\ \E addr \in Iter(work.diffs) :
        /\ columns' =
            [n_rows |-> columns.n_rows + 1,
             cols |-> StoreAll(Schema, columns.cols,
                        CodeDiffRow(addr, work.diffs[addr], response.number,
                                    response.tx, work.pos))]
        /\ work' = Advance(dataset, [work EXCEPT !.diffs = Without(@, addr)])
    /\ xpc' = IF Finished(work') THEN "done" ELSE "running"
    /\ UNCHANGED <<schemas, dataset, response, first, calls>>
    /\ UNCHANGED fetch_vars

\* the row of Erc721Metadata::transform
Erc721Transform ==
    /\ xpc = "running"
    /\ dataset = "Erc721Metadata"
    /\ columns' = [n_rows |-> columns.n_rows + 1,
                   cols |-> StoreAll(Schema, columns.cols, Erc721Row(response))]
    /\ work' = [work EXCEPT !.todo = <<>>]
    /\ xpc' = "done"
    /\ UNCHANGED <<schemas, dataset, response, first, calls>>
    /\ UNCHANGED fetch_vars

\* the same chunk loop calls transform once more, on the same store
TransformAgain ==
    /\ xpc = "done"
    /\ first = None
    /\ calls < MaxCalls
    /\ xpc' = "idle"
    /\ UNCHANGED <<schemas, dataset, response, columns, work, first, calls>>
    /\ UNCHANGED fetch_vars

\* the response is transformed a second time, on a fresh store; the store
\* of the first run is kept aside
Rerun ==
    /\ xpc = "done"
    /\ first = None
    /\ calls = 1
    /\ first' = Some(columns)
    /\ columns' = FreshColumns(dataset)
    /\ work' = <<>>
    /\ calls' = 0
    /\ xpc' = "idle"
    /\ UNCHANGED <<schemas, dataset, response>>
    /\ UNCHANGED fetch_vars

\* no Fetcher is involved in a transform
NoFetcher ==
    /\ n_permits = None
    /\ semaphore = None
    /\ rate_limiter = None
    /\ TaskInit
    /\ GasIdle
    /\ block = [number |-> None, transactions |-> <<>>]

XformInit ==
    /\ NoFetcher
    /\ ExtIdle
    /\ SelIdle
    /\ dataset \in Datasets
    /\ schemas \in Registries(dataset)
    /\ response \in Responses(dataset)
    /\ columns = FreshColumns(dataset)
    /\ work = <<>>
    /\ xpc = "idle"
    /\ first = None
    /\ calls = 0

XformNext ==
    \/ Transform
    \/ AddOps
    \/ ProcessCodeDiff
    \/ Erc721Transform
    \/ TransformAgain
    \/ Rerun

XformSpec == XformInit /\ [][XformNext]_vars

\* --------------------------------------------------- claims on transform

\* the operation nodes of a list of operations, sub-traces included
RECURSIVE CountOps(_)
CountOps(ops) ==
    IF ops = <<>> THEN 0
    ELSE 1 + (IF Head(ops).sub # None THEN CountOps(Head(ops).sub[1].ops) ELSE 0)
           + CountOps(Tail(ops))

\* the operation nodes of the traces that carry a VM trace
RECURSIVE NodesIn(_)
NodesIn(traces) ==
    IF traces = <<>> THEN 0
    ELSE (IF Head(traces).vm_trace # None
          THEN CountOps(Head(traces).vm_trace[1].ops) ELSE 0)
         + NodesIn(Tail(traces))

\* a transform call on a fresh store has come to its end
FreshRunEnded == calls = 1 /\ xpc \in {"done", "panicked", "err"}

\* C11: process_vm_traces over a response, into a fresh VmTraceColumns and
\* with the VM trace schema registered, flattens the response: it ends with
\* n_rows equal to the number of operation nodes (nested ones included, with
\* or without an execution outcome) of the traces that carry a VM trace
C11_RowPerNode ==
    (dataset = "VmTraces" /\ schemas["VmTraces"] # None /\ FreshRunEnded)
        => columns.n_rows = NodesIn(response.traces)

\* add_ops itself, once process_vm_traces found a table to give it, emits
\* one row per node
AddOpsRowPerNode ==
    (dataset = "VmTraces" /\ calls = 1 /\ xpc = "done")
        => columns.n_rows = NodesIn(response.traces)

\* the operations of a list in depth-first pre-order: each operation, then
\* those of its sub-trace, then its next sibling
RECURSIVE FlattenOps(_)
FlattenOps(ops) ==
    IF ops = <<>> THEN <<>>
    ELSE <<Head(ops)>>
         \o (IF Head(ops).sub # None THEN FlattenOps(Head(ops).sub[1].ops) ELSE <<>>)
         \o FlattenOps(Tail(ops))

RECURSIVE FlattenTraces(_)
FlattenTraces(traces) ==
    IF traces = <<>> THEN <<>>
    ELSE (IF Head(traces).vm_trace # None
          THEN FlattenOps(Head(traces).vm_trace[1].ops) ELSE <<>>)
         \o FlattenTraces(Tail(traces))

\* add_ops was given a table that has the columns of both writes and of
\* the gas used
WritesWanted ==
    /\ dataset = "VmTraces"
    /\ schemas[SchemaKey(dataset)] # None
    /\ {"used", "mem_off", "mem_data", "storage_key", "storage_val"} \subseteq Schema

MemPresent(i) == columns.cols.mem_off[i] # None /\ columns.cols.mem_data[i] # None
MemNull(i) == columns.cols.mem_off[i] = None /\ columns.cols.mem_data[i] = None
StorePresent(i) ==
    columns.cols.storage_key[i] # None /\ columns.cols.storage_val[i] # None
StoreNull(i) ==
    columns.cols.storage_key[i] = None /\ columns.cols.storage_val[i] = None

\* C12 as stated: every row of a node that records an execution outcome has
\* exactly one of the memory write and the storage write, the other null
C12_ExactlyOneWrite ==
    WritesWanted =>
        \A i \in 1..columns.n_rows :
            columns.cols.used[i] # None =>
                \/ MemPresent(i) /\ StoreNull(i)
                \/ StorePresent(i) /\ MemNull(i)

\* C12 amended: in every row the memory pair is non-null exactly when the
\* node records an execution outcome with a memory write and null otherwise,
\* and the storage pair is non-null exactly when it records one with a
\* storage write and null otherwise; the columns of a pair are never one
\* null and one non-null
C12_WritesAsRecorded ==
    (WritesWanted /\ calls = 1) =>
        \A i \in 1..columns.n_rows :
            LET node == FlattenTraces(response.traces)[i]
                mem == node.ex # None /\ node.ex[1].mem # None
                sto == node.ex # None /\ node.ex[1].store # None
            IN  /\ (columns.cols.used[i] # None) = (node.ex # None)
                /\ IF mem THEN MemPresent(i) ELSE MemNull(i)
                /\ IF sto THEN StorePresent(i) ELSE StoreNull(i)

\* rows were emitted for two nodes with an outcome: one with a memory write
\* only, one with no write at all
C12_Witness ==
    /\ WritesWanted
    /\ calls = 1
    /\ xpc = "done"
    /\ \E i, j \in 1..columns.n_rows :
        /\ columns.cols.used[i] # None /\ columns.cols.used[j] # None
        /\ MemPresent(i) /\ StoreNull(i)
        /\ MemNull(j) /\ StoreNull(j)

\* C13: after every row emission, in each of the three column stores and
\* over any sequence of transform calls on it, every column is either empty
\* or as long as n_rows
C13_ColumnsAligned ==
    \A c \in DOMAIN columns.cols :
        Len(columns.cols[c]) = 0 \/ Len(columns.cols[c]) = columns.n_rows

\* a second transform call on a VM trace store has emitted its rows, of
\* nested operations too: the table in use has one column and lacks another
C13_Witness ==
    /\ dataset = "VmTraces"
    /\ calls = 2
    /\ xpc = "done"
    /\ columns.n_rows >= 4
    /\ \E t \in DOMAIN response.traces :
        /\ response.traces[t].vm_trace # None
        /\ \E o \in DOMAIN response.traces[t].vm_trace[1].ops :
            response.traces[t].vm_trace[1].ops[o].sub # None
    /\ Len(columns.cols.pc) = 0
    /\ Len(columns.cols.block_number) = columns.n_rows

\* the table registered for the dataset kind that is being transformed
WantedByOwnSchema(c) == schemas[dataset] # None /\ c \in schemas[dataset][1]

\* C14: for every emitted row, transform writes a value into every column
\* the schema registered under its own dataset kind wants and into no other
\* column; no other entry of the registry decides what is written. (Stated
\* for the columns transform fills; chain_id of CodeDiffs, which none does,
\* is left aside.)
C14_WritesPerOwnSchema ==
    \A c \in ColumnNames(dataset) \ {"chain_id"} :
        IF WantedByOwnSchema(c)
        THEN Len(columns.cols[c]) = columns.n_rows
        ELSE Len(columns.cols[c]) = 0

\* the pair the four-way mapping gives a diff
NormalizedPair(diff) ==
    IF diff.tag = "Same" THEN <<ZeroBytes, ZeroBytes>>
    ELSE IF diff.tag = "Born" THEN <<ZeroBytes, diff.to>>
    ELSE IF diff.tag = "Died" THEN <<diff.from, ZeroBytes>>
    ELSE <<diff.from, diff.to>>

\* C15: each diff entry process_code_diff is given becomes one row with
\* exactly one (from_value, to_value) pair, by the four-way mapping: Same ->
\* (zero, zero), Born v -> (zero, v), Died v -> (v, zero), Changed {from, to}
\* -> (from, to); the row carries the entry's address
C15_FourWayMapping ==
    [][(/\ dataset = "CodeDiffs"
        /\ columns'.n_rows = columns.n_rows + 1
        /\ {"address", "from_value", "to_value"} \subseteq Schema)
       => LET addr == CHOOSE a \in DOMAIN work.diffs :
                         \A b \in DOMAIN work.diffs : a <= b
              k == columns'.n_rows
          IN  /\ Len(columns'.cols.from_value) = k
              /\ Len(columns'.cols.to_value) = k
              /\ columns'.cols.address[k] = addr
              /\ <<columns'.cols.from_value[k], columns'.cols.to_value[k]>>
                     = NormalizedPair(work.diffs[addr])
              /\ (work.diffs[addr].tag = "Same"
                     => (columns'.cols.from_value[k] = ZeroBytes)
                            = (columns'.cols.to_value[k] = ZeroBytes))]_vars

\* a changed diff of address 16 from 0x01 to 0x02 has become the row
\* (16, [0x01], [0x02]), next to the row of an unchanged address
C15_Witness ==
    /\ dataset = "CodeDiffs"
    /\ xpc = "done"
    /\ \E i, j \in 1..columns.n_rows :
        /\ Len(columns.cols.address) = columns.n_rows
        /\ Len(columns.cols.from_value) = columns.n_rows
        /\ Len(columns.cols.to_value) = columns.n_rows
        /\ columns.cols.address[i] = 16
        /\ columns.cols.from_value[i] = <<1>>
        /\ columns.cols.to_value[i] = <<2>>
        /\ columns.cols.from_value[j] = ZeroBytes
        /\ columns.cols.to_value[j] = ZeroBytes

\* C16: transform run twice with the same raw response and the same
\* schemas, each time on a fresh store, leaves two stores with the same
\* n_rows and the same column contents in the same row order
C16_SameStoreTwice ==
    (first # None /\ xpc = "done")
        => /\ columns.n_rows = first[1].n_rows
           /\ \A c \in DOMAIN columns.cols : columns.cols[c] = first[1].cols[c]

\* the second run over a state diff of two addresses has ended, both rows in
\* the order of the addresses
C16_Witness ==
    /\ dataset = "CodeDiffs"
    /\ first # None
    /\ xpc = "done"
    /\ columns.n_rows = 2
    /\ columns.cols.address = <<16, 32>>
    /\ columns.cols.from_value[1] # columns.cols.from_value[2]

\* ----------------------------------------------------------------- extract

\* the extracts of the three dataset kinds and the two helpers of Fetcher
\* that read an Option out of the node's answer
ExtractJobs ==
    {"VmTracesByBlock", "VmTracesByTransaction", "CodeDiffsByBlock",
     "CodeDiffsByTransaction", "Erc721Metadata",
     "get_transaction_block_number", "get_transaction_logs"}

Extractors == 1..NumExtracts

\* the Fetcher operation behind each round trip of a job
OperationOf(j) ==
    CASE j = "VmTracesByBlock" -> "trace_replay_block_transactions"
      [] j = "VmTracesByTransaction" -> "trace_replay_transaction"
      [] j = "CodeDiffsByBlock" -> "trace_replay_block_transactions"
      [] j = "CodeDiffsByTransaction" -> "trace_replay_transaction"
      [] j = "Erc721Metadata" -> "call2"
      [] j = "get_transaction_block_number" -> "get_transaction"
      [] j = "get_transaction_logs" -> "get_transaction_receipt"

\* what the provider may answer a round trip of the job with: the traces,
\* Option<Transaction> (mined or not), Option<TransactionReceipt>, or the
\* output bytes of a contract call
ProviderAnswers(j) ==
    CASE j \in {"VmTracesByBlock", "VmTracesByTransaction", "CodeDiffsByBlock",
                "CodeDiffsByTransaction"} -> {Some("traces")}
      [] j = "Erc721Metadata" -> {<<78, 70, 84>>, <<255, 78>>}
      [] j = "get_transaction_block_number" ->
            {None, Some([block_number |-> None]), Some([block_number |-> Some(1)])}
      [] j = "get_transaction_logs" -> {None, Some([logs |-> <<"log">>])}

from_utf8_unchecked(bytes) == Some(bytes)

\* String::from_utf8(bytes).ok(): the string, or None when the bytes are
\* not UTF-8. Of the bytes the node answers with here, those below 0x80
\* are one-byte characters and 0xff is part of no character
from_utf8(bytes) ==
    IF \A i \in DOMAIN bytes : bytes[i] < 128 THEN Some(bytes) ELSE None

IsErrIgnored(r) == FALSE

\* `?` on the result of a Fetcher operation: an Err leaves the function
IsErr(r) == r = "ProviderError"

Ok(v) == Some([tag |-> "Ok", kind |-> "none", value |-> v])
Err(k) == Some([tag |-> "Err", kind |-> k, value |-> <<>>])

\* extract (or the helper) is called and runs to its first suspension, in
\* the Fetcher operation of its first round trip; request.block_number()?
\* and request.transaction_hash()? of CodeDiffs fail first when the Params
\* lack the field
ExtractCall(t) ==
    /\ job \in ExtractJobs
    /\ ext[t] = ExtFresh
    /\ \/ /\ Call(t, OperationOf(job))
          /\ ext' = [ext EXCEPT ![t].trips = 1]
       \/ /\ job \in {"CodeDiffsByBlock", "CodeDiffsByTransaction"}
          /\ ext' = [ext EXCEPT ![t].out = Err("CollectError")]
          /\ UNCHANGED <<gate_vars, task_vars>>
    /\ UNCHANGED <<job, gas_vars, xf_vars, sel_vars>>

\* the round trip of the invocation ends; the Fetcher operation returns and
\* its _permit is dropped
ExtractRpcReturn(t) ==
    /\ ext[t].trips > 0
    /\ ext[t].out = None
    /\ \E ok \in BOOLEAN, val \in ProviderAnswers(job) :
        /\ RpcReturn(t, ok, val)
        /\ ext' = [ext EXCEPT ![t].log = Append(@, [ok |-> ok, val |-> val])]
    /\ UNCHANGED <<job, gas_vars, xf_vars, sel_vars>>

\* the invocation of task t has its latest round trip behind it
Resumed(t) ==
    /\ ext[t].out = None
    /\ ext[t].trips > 0
    /\ Len(ext[t].log) = ext[t].trips
    /\ pc[t] = "done"

\* trace_block_vm_traces, trace_transaction_vm_traces,
\* trace_block_state_diffs, trace_transaction_state_diffs: `result?` inside
\* the Ok tuple, which extract returns
TraceExtractReturn(t) ==
    /\ job \in {"VmTracesByBlock", "VmTracesByTransaction", "CodeDiffsByBlock",
                "CodeDiffsByTransaction"}
    /\ Resumed(t)
    /\ ext' = [ext EXCEPT ![t].out =
                IF IsErr(ret[t]) THEN Err("ProviderError") ELSE Ok(resp[t])]
    /\ UNCHANGED <<job, gate_vars, task_vars, gas_vars, xf_vars, sel_vars>>

\* Erc721Metadata::extract after the name call: `?`, the name is decoded
\* and the symbol call starts (call2 up to its first suspension)
Erc721NameReturned(t) ==
    /\ job = "Erc721Metadata"
    /\ Resumed(t)
    /\ ext[t].trips = 1
    /\ IF IsErr(ret[t])
       THEN /\ ext' = [ext EXCEPT ![t].out = Err("ProviderError")]
            /\ UNCHANGED <<gate_vars, task_vars>>
       ELSE /\ ext' = [ext EXCEPT ![t].name = Some(from_utf8(resp[t])),
                                  ![t].trips = 2]
            /\ permit_request(t)
            /\ UNCHANGED <<n_permits, ret, resp>>
    /\ UNCHANGED <<job, gas_vars, xf_vars, sel_vars>>

\* Erc721Metadata::extract after the symbol call: `?`, the symbol is decoded
\* and the response is returned
Erc721SymbolReturned(t) ==
    /\ job = "Erc721Metadata"
    /\ Resumed(t)
    /\ ext[t].trips = 2
    /\ ext' = [ext EXCEPT ![t].out =
                IF IsErr(ret[t]) THEN Err("ProviderError")
                ELSE Ok([name |-> ext[t].name[1], symbol |-> from_utf8(resp[t])])]
    /\ UNCHANGED <<job, gate_vars, task_vars, gas_vars, xf_vars, sel_vars>>

\* get_transaction_block_number after get_transaction: `?`, then ok_or on
\* the transaction and ok_or on its block number (a block number fits u32)
GetTransactionBlockNumberReturn(t) ==
    /\ job = "get_transaction_block_number"
    /\ Resumed(t)
    /\ ext' = [ext EXCEPT ![t].out =
                IF IsErr(ret[t]) THEN Err("ProviderError")
                ELSE IF resp[t] = None THEN Err("CollectError")
                ELSE IF resp[t][1].block_number = None THEN Err("CollectError")
                ELSE Ok(resp[t][1].block_number[1])]
    /\ UNCHANGED <<job, gate_vars, task_vars, gas_vars, xf_vars, sel_vars>>

\* get_transaction_logs after get_transaction_receipt: `?`, then ok_or on
\* the receipt
GetTransactionLogsReturn(t) ==
    /\ job = "get_transaction_logs"
    /\ Resumed(t)
    /\ ext' = [ext EXCEPT ![t].out =
                IF IsErr(ret[t]) THEN Err("ProviderError")
                ELSE IF resp[t] = None THEN Err("CollectError")
                ELSE Ok(resp[t][1].logs)]
    /\ UNCHANGED <<job, gate_vars, task_vars, gas_vars, xf_vars, sel_vars>>

\* get_txs_gas_used is not running
GasOff ==
    /\ gpc = "off"
    /\ path = "none"
    /\ spawned = 0
    /\ awaited = 0
    /\ gas_used = <<>>
    /\ result = None
    /\ overtaken = FALSE
    /\ block = [number |-> None, transactions |-> <<>>]

\* a Fetcher shared by the concurrent invocations of one collection: the
\* extracts of a dataset kind, the calls of a helper, or get_txs_gas_used
\* with the tasks it spawns
ExtractInit ==
    /\ GateInit
    /\ TaskInit
    /\ XfIdle
    /\ SelIdle
    /\ job \in ExtractJobs \cup {"get_txs_gas_used"}
    /\ ext = [t \in Tasks |-> ExtFresh]
    /\ IF job = "get_txs_gas_used" THEN GasIdle /\ block \in Blocks ELSE GasOff

\* nobody cancels a task or closes the semaphore
ExtractNext ==
    \/ \E t \in Extractors : ExtractCall(t)
    \/ \E t \in Clients : ClientAcquireWake(t)
    \/ \E t \in Clients : ClientUntilReady(t)
    \/ \E t \in Extractors : ExtractRpcReturn(t)
    \/ \E t \in Extractors : TraceExtractReturn(t)
    \/ \E t \in Extractors : Erc721NameReturned(t)
    \/ \E t \in Extractors : Erc721SymbolReturned(t)
    \/ \E t \in Extractors : GetTransactionBlockNumberReturn(t)
    \/ \E t \in Extractors : GetTransactionLogsReturn(t)
    \/ LimiterTick
    \/ GetTxsGasUsed
    \/ MainUntilReady
    \/ GetBlockReceiptsReturn
    \/ PerBlockReturn
    \/ Spawn
    \/ \E t \in Clients : TaskStart(t)
    \/ \E t \in Clients : TaskReturn(t)
    \/ Await
    \/ PerTxReturn

\* tasks are scheduled fairly, round trips and limiter waits end
ExtractSpec ==
    /\ ExtractInit
    /\ [][ExtractNext]_vars
    /\ \A t \in Clients : WF_vars(ClientAcquireWake(t))
    /\ \A t \in Clients : WF_vars(ClientUntilReady(t))
    /\ \A t \in Extractors : WF_vars(ExtractRpcReturn(t))
    /\ \A t \in Extractors : WF_vars(TraceExtractReturn(t))
    /\ \A t \in Extractors : WF_vars(Erc721NameReturned(t))
    /\ \A t \in Extractors : WF_vars(Erc721SymbolReturned(t))
    /\ \A t \in Extractors : WF_vars(GetTransactionBlockNumberReturn(t))
    /\ \A t \in Extractors : WF_vars(GetTransactionLogsReturn(t))
    /\ WF_vars(LimiterTick)
    /\ WF_vars(GetTxsGasUsed)
    /\ WF_vars(MainUntilReady)
    /\ WF_vars(GetBlockReceiptsReturn)
    /\ WF_vars(PerBlockReturn)
    /\ WF_vars(Spawn)
    /\ \A t \in Clients : WF_vars(TaskStart(t))
    /\ \A t \in Clients : WF_vars(TaskReturn(t))
    /\ WF_vars(Await)
    /\ WF_vars(PerTxReturn)

\* ------------------------------------------------------ claims on extract

\* the latest completed round trip of task t
LastTrip(t) == ext[t].log[Len(ext[t].log)]

\* C17: get_transaction_logs fails with NotFound when the node has no
\* receipt, get_transaction_block_number fails with NotFound when the node
\* has no transaction or the transaction has no block number; an RPC
\* failure is reported as the RPC error (CollectError::ProviderError)
C17_NotFoundKind ==
    \A t \in Extractors :
        (job \in {"get_transaction_logs", "get_transaction_block_number"}
            /\ ext[t].out # None)
        => IF ~LastTrip(t).ok
           THEN ext[t].out[1].tag = "Err" /\ ext[t].out[1].kind = "ProviderError"
           ELSE IF \/ LastTrip(t).val = None
                   \/ /\ job = "get_transaction_block_number"
                      /\ LastTrip(t).val[1].block_number = None
           THEN ext[t].out[1].tag = "Err" /\ ext[t].out[1].kind = "NotFound"
           ELSE ext[t].out[1].tag = "Ok"

\* the bytes are text: here, all of them one-byte characters
IsUtf8(bytes) == \A i \in DOMAIN bytes : bytes[i] \in 0..127

Decoded(bytes) == IF IsUtf8(bytes) THEN Some(bytes) ELSE None

\* C18 as stated: Erc721Metadata's extract returns an error when the bytes
\* of the name call or of the symbol call are not decodable as a string
C18_DecodeFailureIsError ==
    \A t \in Extractors :
        (/\ job = "Erc721Metadata"
         /\ ext[t].out # None
         /\ \E i \in DOMAIN ext[t].log :
                ext[t].log[i].ok /\ ~IsUtf8(ext[t].log[i].val))
        => ext[t].out[1].tag = "Err"

\* C18 amended: Erc721Metadata's extract returns an error exactly when one
\* of its calls fails; bytes of the name call (of the symbol call) that are
\* not decodable as a string give a successful response whose name (symbol)
\* is absent, decodable bytes give the string
C18_DecodeFailureIsAbsent ==
    \A t \in Extractors :
        (job = "Erc721Metadata" /\ ext[t].out # None)
        => /\ (ext[t].out[1].tag = "Err")
                  = (\E i \in DOMAIN ext[t].log : ~ext[t].log[i].ok)
           /\ ext[t].out[1].tag = "Ok" =>
                /\ ext[t].out[1].value.name = Decoded(ext[t].log[1].val)
                /\ ext[t].out[1].value.symbol = Decoded(ext[t].log[2].val)

\* an extract has returned Ok with an absent name, the name call having
\* answered bytes that are no string, and a decoded symbol
C18_Witness ==
    \E t \in Extractors :
        /\ job = "Erc721Metadata"
        /\ ext[t].out # None
        /\ ext[t].out[1].tag = "Ok"
        /\ ~IsUtf8(ext[t].log[1].val)
        /\ ext[t].out[1].value.name = None
        /\ ext[t].out[1].value.symbol # None

\* a round trip of task t has failed
HasFailed(t) == \E i \in DOMAIN ext[t].log : ~ext[t].log[i].ok

\* C19: in the extracts of VmTraces, CodeDiffs and Erc721Metadata a failed
\* round trip is the last one the invocation issues (no call after it, the
\* symbol call included, and no second try), the invocation's next step is
\* to return, and what it returns is the provider's error
C19_NoRetry ==
    /\ [](\A t \in Extractors :
            (job \in ExtractJobs /\ HasFailed(t))
            => /\ ~LastTrip(t).ok
               /\ ext[t].trips = Len(ext[t].log)
               /\ \A i \in 1..(Len(ext[t].log) - 1) : ext[t].log[i].ok
               /\ ext[t].out # None =>
                    ext[t].out[1].tag = "Err" /\ ext[t].out[1].kind = "ProviderError")
    /\ [][\A t \in Extractors :
            (job \in ExtractJobs /\ HasFailed(t) /\ ext[t].out = None
                /\ <<ext[t], pc[t]>>' # <<ext[t], pc[t]>>)
            => (ext[t].out' # None /\ pc[t]' = pc[t])]_vars

\* an Erc721Metadata extract whose name call failed has returned the error
\* after one round trip, next to one that went through both calls
C19_Witness ==
    /\ job = "Erc721Metadata"
    /\ \E t, u \in Extractors :
        /\ ext[t].out # None
        /\ ext[t].trips = 1
        /\ HasFailed(t)
        /\ ext[u].out # None
        /\ ext[u].trips = 2

\* every permit given out is held by a task
PermitsAccounted ==
    semaphore # None =>
        semaphore[1].permits + Cardinality(HeldPermits) = n_permits[1]

\* C20: no permit is held across two round trips. When Erc721Metadata's
\* extract asks for the permit of its symbol call it holds none, the one of
\* its name call being back in the semaphore (or with another task); while
\* get_txs_gas_used runs its per-transaction path its caller holds none;
\* and so, whatever the concurrency bound N >= 1 (N = 1 included), every
\* invocation that started comes to its end
C20_NoPermitAcrossRoundTrips ==
    /\ [][\A t \in Extractors :
            (ext[t].trips = 1 /\ ext[t].trips' = 2)
            => (permit[t] = "Unset" /\ PermitsAccounted)]_vars
    /\ [](gpc = "per_tx" => (permit[Main] = "Unset" /\ PermitsAccounted))
    /\ (n_permits # Some(0)) =>
         /\ \A t \in Extractors : (ext[t].trips > 0) ~> (ext[t].out # None)
         /\ (gpc \in {"per_block", "per_tx"}) ~> (gpc = "returned")

\* with one permit, one extract is in its symbol call while the other, its
\* name call done, waits for the permit
C20_Witness ==
    /\ job = "Erc721Metadata"
    /\ n_permits = Some(1)
    /\ \E t, u \in Extractors :
        /\ ext[t].trips = 2 /\ pc[t] = "rpc" /\ permit[t] = "Ok"
        /\ ext[u].trips = 2 /\ pc[u] = "acquire" /\ permit[u] = "Unset"

\* -------------------------------------------- more claims on transform

\* the transaction position of each row of the flattened traces: the index
\* of the trace the operation belongs to
RECURSIVE FlattenPositions(_, _)
FlattenPositions(traces, index) ==
    IF traces = <<>> THEN <<>>
    ELSE (IF Head(traces).vm_trace # None
          THEN [i \in 1..CountOps(Head(traces).vm_trace[1].ops) |-> index]
          ELSE <<>>)
         \o FlattenPositions(Tail(traces), index + 1)

\* add_ops was given a table that keeps the program counter and the
\* transaction position of each row, and fills a fresh store
OrderKept ==
    /\ dataset = "VmTraces"
    /\ calls = 1
    /\ xpc \in {"running", "done"}
    /\ {"pc", "cost", "transaction_position"} \subseteq Schema

\* C21: add_ops emits rows in depth-first pre-order. At every moment of a
\* run the rows emitted so far are the first rows of the pre-order walk of
\* the response: a node, then the rows of its sub-trace, then its next
\* sibling, siblings in their given order, the traces one after the other,
\* every row carrying the position of its trace
C21_DepthFirstPreOrder ==
    OrderKept =>
        LET f == FlattenTraces(response.traces)
            p == FlattenPositions(response.traces, 0)
            n == columns.n_rows
        IN  /\ n <= Len(f)
            /\ xpc = "done" => n = Len(f)
            /\ columns.cols.pc = [i \in 1..n |-> f[i].pc]
            /\ columns.cols.cost = [i \in 1..n |-> f[i].cost]
            /\ columns.cols.transaction_position = [i \in 1..n |-> p[i]]

\* a call with a one-operation sub-trace and a next sibling, the three of
\* them different operations, has been flattened: root, child, sibling
C21_Witness ==
    /\ OrderKept
    /\ xpc = "done"
    /\ Len(response.traces) = 1
    /\ response.traces[1].vm_trace # None
    /\ LET ops == response.traces[1].vm_trace[1].ops
       IN  /\ Len(ops) = 2
           /\ ops[1].sub # None
           /\ ops[1].sub[1].ops[1].ex = None
           /\ columns.cols.pc = <<ops[1].pc, ops[1].sub[1].ops[1].pc, ops[2].pc>>
           /\ Cardinality({ops[1].pc, ops[1].sub[1].ops[1].pc, ops[2].pc}) = 3

\* the (trace, address) pairs of a response whose code diff is not the
\* unchanged variant
RECURSIVE NonemptyPairs(_)
NonemptyPairs(traces) ==
    IF traces = <<>> THEN 0
    ELSE (IF Head(traces).state_diff # None
          THEN LET sd == Head(traces).state_diff[1]
               IN  Cardinality({a \in DOMAIN sd : sd[a].tag # "Same"})
          ELSE 0)
         + NonemptyPairs(Tail(traces))

\* C22: process_code_diffs, run to its end over a response and a fresh
\* store, emits one row for every (trace, address) pair with a nonempty code
\* diff and no other row: n_rows is the number of those pairs, an unchanged
\* code diff not being one of them
C22_RowPerNonemptyDiff ==
    (dataset = "CodeDiffs" /\ calls = 1 /\ xpc = "done")
        => columns.n_rows = NonemptyPairs(response.traces)

\* C23: with no entry for CodeDiffs in the registry, the transform of
\* CodeDiffs (by block and by transaction alike) returns an error and leaves
\* the column store as it was, n_rows and every column, whatever the
\* response holds; and it returns an error in no other case
C23_MissingSchemaLeavesStore ==
    /\ [][(xpc = "idle" /\ xpc' # "idle" /\ dataset = "CodeDiffs"
              /\ schemas["CodeDiffs"] = None)
            => (xpc' = "err" /\ columns' = columns)]_vars
    /\ [](xpc = "err" => /\ dataset = "CodeDiffs"
                         /\ schemas["CodeDiffs"] = None
                         /\ columns = FreshColumns("CodeDiffs"))

\* the transform of a by-block response with a nonempty code diff has
\* failed for want of the schema
C23_Witness ==
    /\ xpc = "err"
    /\ calls = 1
    /\ response.number # None
    /\ NonemptyPairs(response.traces) > 0
    /\ columns.n_rows = 0

\* the same for a by-transaction response
C23_WitnessByTransaction ==
    /\ xpc = "err"
    /\ response.tx # None
    /\ NonemptyPairs(response.traces) > 0

\* C24: a missing schema is reported to the caller of transform as a
\* failure value, for every dataset kind: no transform aborts the task
C24_MissingSchemaIsFailure ==
    xpc # "panicked"

\* ------------------------------------------------- more claims on the gate

\* the tasks waiting for the rate limiter to admit them
LimiterWaiting == {t \in Tasks : pc[t] = "until_ready"}

\* C25: with a semaphore of N >= 1 permits and a rate limiter, a task that
\* waits on the rate limiter owns a permit, and the tasks waiting on the
\* rate limiter together with those in a round trip are never more than N
C25_LimiterWaitHoldsPermit ==
    (n_permits # None /\ n_permits # Some(0) /\ rate_limiter # None) =>
        /\ \A t \in LimiterWaiting : permit[t] = "Ok"
        /\ Cardinality(LimiterWaiting \cup InFlight) <= n_permits[1]

\* permit_request itself: acquire has returned, with a permit or with the
\* error of a closed semaphore, before the rate limiter is waited on, and
\* the tasks that wait there or are in a round trip with a permit are never
\* more than N
PermitBeforeLimiter ==
    n_permits # None =>
        /\ \A t \in LimiterWaiting : permit[t] \in {"Ok", "Err"}
        /\ \A t \in LimiterWaiting : ~semaphore[1].closed => permit[t] = "Ok"
        /\ Cardinality((LimiterWaiting \cup InFlight) \cap HeldPermits)
               <= n_permits[1]

\* --------------------------------------- more claims on get_txs_gas_used

\* get_txs_gas_used_per_tx has returned its error
PerTxFailed ==
    /\ gpc = "returned"
    /\ path = "per_tx"
    /\ result = Some([ok |-> FALSE, value |-> <<>>])

\* all the permits of the gate are available
AllPermitsBack == semaphore # None => semaphore[1].permits = n_permits[1]

\* C26: get_txs_gas_used_per_tx spawns the task of every transaction before
\* it awaits the first; and when it returns an error, the tasks of the
\* other transactions go on: each of them performs its round trip with its
\* permit and gives the permit back, so that all N permits of the gate are
\* available again in the end
C26_TasksOutliveError ==
    /\ []((gpc \in {"per_tx", "returned"} /\ path = "per_tx"
              /\ (awaited > 0 \/ gpc = "returned")) => spawned = NumTxs)
    /\ [][\A t \in Clients :
            (PerTxFailed /\ pc[t] = "rpc") => (pc'[t] = "rpc" \/ ret'[t] # "Cancelled")]_vars
    /\ \A t \in Clients :
         (PerTxFailed /\ t <= spawned)
            ~> (pc[t] = "done" /\ ret[t] \in {"Ok", "ProviderError"}
                   /\ permit[t] = "Unset")
    /\ PerTxFailed ~> [](AllPermitsBack /\ \A t \in Tasks : permit[t] = "Unset")

\* the error has been returned because of the first transaction while the
\* task of the second is in its round trip, with the only permit
C26_Witness ==
    /\ PerTxFailed
    /\ n_permits = Some(1)
    /\ awaited = 0
    /\ pc[1] = "done"
    /\ pc[2] = "rpc"
    /\ permit[2] = "Ok"

\* task t calls a Fetcher operation in this step
Calls(t) == pc[t] = "idle" /\ pc'[t] # "idle"

\* C27: one get_txs_gas_used issues at most one get_block_receipts call,
\* and none for a block without a number, whose transactions are still
\* asked for one by one; it issues at most one get_transaction_receipt call
\* per transaction (a task calls once, only the tasks of the block's
\* transactions call, and none calls again); and an error it returns is the
\* one of the second path, whatever the first path failed with
C27_CallsAtMostOnce ==
    /\ [][Calls(Main) => (gpc = "start" /\ block.number # None)]_vars
    /\ [][\A t \in Tasks : pc[t] # "idle" => pc'[t] # "idle"]_vars
    /\ [][\A t \in Clients : Calls(t) => (t <= NumTxs /\ path = "per_tx")]_vars
    /\ [](block.number = None => pc[Main] = "idle")
    /\ []((block.number = None /\ gpc # "start") => path = "per_tx")
    /\ [][(result = None /\ result' # None /\ ~result'[1].ok)
            => (gpc = "per_tx" /\ path = "per_tx" /\ spawned = NumTxs)]_vars
    /\ []((result # None /\ ~result[1].ok) => path = "per_tx")

\* both paths have failed: the batched call with a provider error, then a
\* task of the second path, every transaction having been asked for once
C27_Witness ==
    /\ PerTxFailed
    /\ block.number # None
    /\ ret[Main] = "ProviderError"
    /\ NumTxs = 2
    /\ \A t \in 1..NumTxs : pc[t] = "done"

\* ------------------------------------------------ more claims on code diffs

\* the position, in the response list, of the trace each row comes from:
\* one row per entry of each state diff
RECURSIVE DiffPositions(_, _)
DiffPositions(traces, index) ==
    IF traces = <<>> THEN <<>>
    ELSE (IF Head(traces).state_diff # None
          THEN [i \in 1..Cardinality(DOMAIN Head(traces).state_diff[1]) |-> index]
          ELSE <<>>)
         \o DiffPositions(Tail(traces), index + 1)

\* process_code_diffs fills a fresh store and its table keeps the three
\* correlation columns
ContextKept ==
    /\ dataset = "CodeDiffs"
    /\ calls = 1
    /\ xpc \in {"running", "done"}
    /\ {"block_number", "transaction_hash", "transaction_index"} \subseteq Schema

ByBlock == response.number # None /\ response.tx = None
ByTransaction ==
    response.number = None /\ response.tx # None /\ Len(response.traces) = 1

\* C28: every row of process_code_diffs carries the context of its unit of
\* work. A by-block response gives rows with the block number, a null
\* transaction hash and, as transaction index, the position of the row's
\* trace in the response; a by-transaction response gives rows with the
\* transaction hash, a null block number and transaction index 0
C28_CorrelationContext ==
    ContextKept =>
        LET n == columns.n_rows
            p == DiffPositions(response.traces, 0)
        IN  /\ ByBlock \/ ByTransaction
            /\ n <= Len(p)
            /\ columns.cols.block_number = [i \in 1..n |-> response.number]
            /\ columns.cols.transaction_hash = [i \in 1..n |-> response.tx]
            /\ columns.cols.transaction_index = [i \in 1..n |-> Some(p[i])]
            /\ ByTransaction =>
                 columns.cols.transaction_index = [i \in 1..n |-> Some(0)]

\* a by-block response whose first trace has no state diff: the row of the
\* second trace has transaction index 1
C28_Witness ==
    /\ ContextKept
    /\ xpc = "done"
    /\ ByBlock
    /\ Len(response.traces) = 2
    /\ response.traces[1].state_diff = None
    /\ columns.n_rows >= 1
    /\ columns.cols.transaction_index[1] = Some(1)
    /\ columns.cols.block_number[1] = Some(1)
    /\ columns.cols.transaction_hash[1] = None

\* a by-transaction response with two addresses: two rows of index 0
C28_WitnessByTransaction ==
    /\ ContextKept
    /\ xpc = "done"
    /\ ByTransaction
    /\ columns.cols.transaction_index = <<Some(0), Some(0)>>
    /\ columns.cols.block_number = <<None, None>>
    /\ columns.cols.transaction_hash = <<response.tx, response.tx>>

\* ------------------------------------------- EventSelector::select_event

\* an Event is known by its name; a contract may declare several events of
\* one name
EventNames == {"Transfer", "Approval"}

EventLists == UNION {[1..n -> EventNames] : n \in 0..MaxEvents}

Digits == <<"0", "1", "2", "3", "4", "5", "6", "7", "8", "9">>

IsDigit(c) == \E i \in 1..10 : Digits[i] = c

DigitValue(c) == (CHOOSE i \in 1..10 : Digits[i] = c) - 1

Whitespace == {" ", "\n"}

\* the lines read_line may leave in `input`, as their characters: the
\* numbers from 0 to one past the longest list, and lines with blanks, a
\* sign, a letter, a leading zero, nothing typed, the end of the input, the
\* greatest usize and the number after it
Lines ==
    {<<Digits[k + 1], "\n">> : k \in 0..(MaxEvents + 1)}
    \cup
    {<<" ", "2", " ", "\n">>, <<"+", "1", "\n">>, <<"-", "1", "\n">>,
     <<"a", "\n">>, <<"1", " ", "2", "\n">>, <<"0", "1", "\n">>,
     <<"\n">>, <<>>,
     <<"1", "8", "4", "4", "6", "7", "4", "4", "0", "7",
       "3", "7", "0", "9", "5", "5", "1", "6", "1", "5", "\n">>,
     <<"1", "8", "4", "4", "6", "7", "4", "4", "0", "7",
       "3", "7", "0", "9", "5", "5", "1", "6", "1", "6", "\n">>}

\* str::trim: the leading and the trailing whitespace go
RECURSIVE TrimStart(_)
TrimStart(chars) ==
    IF chars # <<>> /\ Head(chars) \in Whitespace
    THEN TrimStart(Tail(chars)) ELSE chars

RECURSIVE TrimEnd(_)
TrimEnd(chars) ==
    IF chars # <<>> /\ chars[Len(chars)] \in Whitespace
    THEN TrimEnd(SubSeq(chars, 1, Len(chars) - 1)) ELSE chars

Trim(chars) == TrimEnd(TrimStart(chars))

UsizeZero == [i \in 1..UsizeLimbs |-> 0]

\* limbs * 10 + carry, with the carry that does not fit
RECURSIVE MulAdd10(_, _)
MulAdd10(limbs, carry) ==
    IF limbs = <<>> THEN [limbs |-> <<>>, carry |-> carry]
    ELSE LET v == Head(limbs) * 10 + carry
             rest == MulAdd10(Tail(limbs), v \div Limb)
         IN  [limbs |-> <<v % Limb>> \o rest.limbs, carry |-> rest.carry]

\* the digits are taken in, most significant first; any other character
\* and a value beyond usize::MAX are errors
RECURSIVE ParseDigits(_, _)
ParseDigits(chars, acc) ==
    IF chars = <<>> THEN Some(acc)
    ELSE IF ~IsDigit(Head(chars)) THEN None
    ELSE LET next == MulAdd10(acc, DigitValue(Head(chars)))
         IN  IF next.carry # 0 THEN None
             ELSE ParseDigits(Tail(chars), next.limbs)

\* str::parse::<usize>: an optional plus sign and at least one digit
parse(chars) ==
    LET digits == IF chars # <<>> /\ Head(chars) = "+" THEN Tail(chars) ELSE chars
    IN  IF digits = <<>> THEN None ELSE ParseDigits(digits, UsizeZero)

IsZero(limbs) == \A i \in DOMAIN limbs : limbs[i] = 0

\* limbs - 1 in wrapping arithmetic: 0 - 1 is usize::MAX
RECURSIVE wrapping_sub_one(_)
wrapping_sub_one(limbs) ==
    IF limbs = <<>> THEN <<>>
    ELSE IF Head(limbs) > 0 THEN <<Head(limbs) - 1>> \o Tail(limbs)
    ELSE <<Limb - 1>> \o wrapping_sub_one(Tail(limbs))

\* slice::get: the element at the index, if the index is below the length
get(list, index) ==
    IF (\A i \in 2..UsizeLimbs : index[i] = 0) /\ index[1] < Len(list)
    THEN Some(list[index[1] + 1])
    ELSE None

SelectOk(event) == [tag |-> "Ok", msg |-> "", event |-> Some(event)]
SelectErr(msg) == [tag |-> "Err", msg |-> msg, event |-> None]
SelectPanic == [tag |-> "Panic", msg |-> "attempt to subtract with overflow",
                event |-> None]

\* select_event on the line read from the standard input. `choice - 1` on a
\* choice of 0 panics in a build with overflow checks and wraps in a build
\* without
SelectEvent ==
    /\ selected = None
    /\ LET choice == parse(Trim(input))
       IN  selected' = Some(
             IF choice = None THEN SelectErr("Invalid input")
             ELSE IF IsZero(choice[1]) /\ overflow_checks THEN SelectPanic
             ELSE LET event == get(events, wrapping_sub_one(choice[1]))
                  IN  IF event = None THEN SelectErr("Event not found")
                      ELSE SelectOk(event[1]))
    /\ UNCHANGED <<events, input, overflow_checks>>
    /\ UNCHANGED <<gate_vars, task_vars, gas_vars, xf_vars, ext_vars>>

SelectInit ==
    /\ NoFetcher
    /\ XfIdle
    /\ ExtIdle
    /\ events \in EventLists
    /\ input \in Lines
    /\ overflow_checks \in BOOLEAN
    /\ selected = None

SelectNext == SelectEvent

SelectSpec == SelectInit /\ [][SelectNext]_vars

\* ------------------------------------------------ claims on select_event

\* the typed line is the number k of one of the n listed events
TypedInRange ==
    LET choice == parse(Trim(input))
    IN  /\ choice # None
        /\ \A i \in 2..UsizeLimbs : choice[1][i] = 0
        /\ choice[1][1] \in 1..Len(events)

TypedZero ==
    LET choice == parse(Trim(input))
    IN  choice # None /\ IsZero(choice[1])

\* C29: select_event returns the k-th listed event for a typed number k
\* from 1 to n, and an Err for every other number, 0 and the empty list
\* included, without aborting; a line that is no number gives
\* Err("Invalid input"). Where the build lets k - 1 wrap, the call is
\* judged here by what it returns
C29_SelectKth ==
    selected # None =>
        LET choice == parse(Trim(input))
            out == selected[1]
        IN  /\ out.tag # "Panic"
            /\ choice = None => out = SelectErr("Invalid input")
            /\ TypedInRange => out = SelectOk(events[choice[1][1]])
            /\ (choice # None /\ ~TypedInRange) => out.tag = "Err"

\* select_event for every typed line but the number 0: the k-th event, or
\* an Err
SelectFromOne ==
    (selected # None /\ ~TypedZero) =>
        LET choice == parse(Trim(input))
            out == selected[1]
        IN  /\ choice = None => out = SelectErr("Invalid input")
            /\ TypedInRange => out = SelectOk(events[choice[1][1]])
            /\ (choice # None /\ ~TypedInRange) => out = SelectErr("Event not found")

\* the second of two events has been selected
SelectSecond ==
    /\ selected # None
    /\ Len(events) = 2
    /\ events[1] # events[2]
    /\ input = <<"2", "\n">>
    /\ selected[1] = SelectOk(events[2])
====
